---- MODULE Spec2Model ----
(***************************************************************************)
(* The two teaching notebooks as a state machine.  A notebook is a list of *)
(* code cells run by one kernel: the state is the kernel's namespace `ns`  *)
(* (every global name the cells bind), and one action is the execution of  *)
(* one cell, statement by statement, up to the first exception.  Library   *)
(* calls are modelled by what the documented library function computes.    *)
(*                                                                         *)
(* Numbers.  Every number is a record [num, den, rad] that stands for      *)
(*      num / (den * sqrt(rad))                                            *)
(* so that standardised values (x - mean) / std stay exact.  den = 0 is    *)
(* NaN.  An integer k is [num |-> k, den |-> 1, rad |-> 1].                *)
(***************************************************************************)
EXTENDS Integers, Sequences, FiniteSets, TLC

VARIABLES
    nb,      \* which notebook this kernel runs: "prep" or "intro"
    env,     \* the world outside the kernel: files on disk, generator output
    ns,      \* the namespace: name -> <<>> (unbound) or <<value>>
    out,     \* what the last executed cell displayed: <<>> or <<value>>
    log,     \* history: what each library call was given (ghost)
    status,  \* [cell, err, again]: the last executed cell, how it ended, and
             \* whether the execution before it was of the same cell
    pc       \* Run All: the position in the cell list; 0 when interactive

vars == <<nb, env, ns, out, log, status, pc>>

----------------------------------------------------------------------------
(* Numbers *)

I(k) == [num |-> k, den |-> 1, rad |-> 1]
NaN == [num |-> 0, den |-> 0, rad |-> 1]
IsNaN(q) == q.den = 0
IsInt(q) == q.den = 1 /\ q.rad = 1

Sq(k) == k * k

\* q < 0, q > 0, q = r, q <= 1, q >= 0 for numbers that are not NaN
QNeg(q) == q.num < 0
QEq(q, r) ==
    /\ IsNaN(q) = IsNaN(r)
    /\ ~IsNaN(q) =>
        /\ (q.num < 0) = (r.num < 0)
        /\ Sq(q.num) * Sq(r.den) * r.rad = Sq(r.num) * Sq(q.den) * q.rad
QLeOne(q) == q.num <= 0 \/ Sq(q.num) <= Sq(q.den) * q.rad
QInUnit(q) == ~IsNaN(q) /\ ~QNeg(q) /\ QLeOne(q)
QIsZero(q) == ~IsNaN(q) /\ q.num = 0
QIsOne(q) == ~IsNaN(q) /\ q.num > 0 /\ Sq(q.num) = Sq(q.den) * q.rad

\* an integer matrix written as in the source
Mat(m) == [i \in 1..Len(m) |-> [j \in 1..Len(m[i]) |-> I(m[i][j])]]

NRows(M) == Len(M)
NCols(M) == IF Len(M) = 0 THEN 0 ELSE Len(M[1])
Column(M, j) == [i \in 1..Len(M) |-> M[i][j]]
\* A text entry of a table (a category label) is a number record with rad = 0
\* that carries the text.
Text(t) == [num |-> 0, den |-> 1, rad |-> 0, text |-> t]
IsText(q) == q.rad = 0
HasText(M) == \E i \in 1..Len(M) : \E j \in 1..Len(M[i]) : IsText(M[i][j])
HasNaN(M) == \E i \in 1..Len(M) : \E j \in 1..Len(M[i]) : IsNaN(M[i][j])

SeqSet(q) == {q[i] : i \in 1..Len(q)}

RECURSIVE SumNum(_)
SumNum(s) == IF Len(s) = 0 THEN 0 ELSE s[1].num + SumNum(Tail(s))

RECURSIVE SumSq(_)
SumSq(s) == IF Len(s) = 0 THEN 0 ELSE Sq(s[1].num) + SumSq(Tail(s))

RECURSIVE Present(_)
Present(s) ==
    IF Len(s) = 0 THEN <<>>
    ELSE IF IsNaN(s[1]) THEN Present(Tail(s))
    ELSE <<s[1]>> \o Present(Tail(s))

RECURSIVE MinNum(_)
MinNum(s) ==
    IF Len(s) = 1 THEN s[1].num
    ELSE LET m == MinNum(Tail(s)) IN IF s[1].num < m THEN s[1].num ELSE m

RECURSIVE MaxNum(_)
MaxNum(s) ==
    IF Len(s) = 1 THEN s[1].num
    ELSE LET m == MaxNum(Tail(s)) IN IF s[1].num > m THEN s[1].num ELSE m

----------------------------------------------------------------------------
(* Options, the namespace and the statement interpreter *)

None == <<>>
Some(v) == <<v>>
Bound(n, x) == x \in DOMAIN n /\ n[x] # None
Val(n, x) == n[x][1]

PrepNames ==
    {"X", "X_scaled", "scaler", "X_raw", "y", "format_axes", "plot_scaled",
     "min_max_scaler", "X_test", "normalizer", "robust_scaler", "X_outlier",
     "y_outlier", "maxx", "maxy", "enc", "lb", "le",
     "test_scores", "imp", "mode_imp", "siblings_imputed", "impute_subset",
     "missing", "mod", "mother_hs_pred", "mod2", "mod3", "mother_hs_imp",
     "C", "imputed"}

IntroNames ==
    {"iris", "n_samples", "n_features", "iris_df", "pca", "X_pca", "vlbw", "subset",
     "y", "X", "X0", "X_train", "X_test", "y_train", "y_test", "lrmod",
     "pred_train", "pred_test", "n", "boot_samples", "i", "boot_ind", "y_i",
     "X_i", "lrmod_i", "boot_se", "coefs", "name", "value"}

NamesOf(book) == IF book = "prep" THEN PrepNames ELSE IntroNames
EmptyNs(book) == [x \in NamesOf(book) |-> None]

LogKeys ==
    {"scaler", "min_max_scaler", "imp", "mode_imp", "mod", "mod2", "mod3", "predict",
     "normalizer", "robust_scaler", "enc", "lb", "le",
     "pca", "lrmod", "lrmod_i", "split", "use", "read_csv", "arg"}
EmptyLog == [k \in LogKeys |-> None]

\* A world is what a statement reads and writes; err is "ok" until a
\* statement raises, and the statements after it do not run.
World(n, o, l) == [ns |-> n, out |-> o, log |-> l, err |-> "ok"]
Raise(w, e) == [w EXCEPT !.err = e]
Bind(w, x, v) == [w EXCEPT !.ns[x] = Some(v)]
Show(w, v) == [w EXCEPT !.out = Some(v)]
Logged(w, k, v) == [w EXCEPT !.log[k] = Some(v)]
Then(w, F(_)) == IF w.err = "ok" THEN F(w) ELSE w
\* x = <the value just computed>: an assignment displays nothing
Assign(w, x) == IF w.err = "ok" THEN [Bind(w, x, w.out[1]) EXCEPT !.out = None] ELSE w
Quiet(w) == [w EXCEPT !.out = None]

\* Values: every value carries its kind.
Array(m) == [kind |-> "ndarray", m |-> m]
List(m) == [kind |-> "list", m |-> m]
Function(name) == [kind |-> "function", name |-> name]
Figure(title, npoints) == [kind |-> "figure", title |-> title, n |-> npoints]

----------------------------------------------------------------------------
(* The library's scalers: sklearn.preprocessing *)

\* A new, unfitted estimator object.
Estimator(cls) == [kind |-> "estimator", cls |-> cls, fitted |-> FALSE, params |-> <<>>]

\* StandardScaler.fit: per column the count n, the sum s and d = n*sumsq - s^2
\* of the entries that are not NaN, so that mean_ = s/n and scale_ = sqrt(d)/n.
StdFitColumn(col) ==
    LET c == Present(col)
        n == Len(c)
        s == SumNum(c)
    IN  [n |-> n, s |-> s, d |-> n * SumSq(c) - Sq(s)]

StdFit(M) == [j \in 1..NCols(M) |-> StdFitColumn(Column(M, j))]

\* (x - mean_) / scale_, where a zero scale_ is replaced by 1.
StdValue(p, x) ==
    IF IsNaN(x) \/ p.n = 0 THEN NaN
    ELSE IF p.d = 0 THEN [num |-> p.n * x.num - p.s, den |-> p.n, rad |-> 1]
    ELSE [num |-> p.n * x.num - p.s, den |-> 1, rad |-> p.d]

StdTransform(params, M) ==
    [i \in 1..Len(M) |-> [j \in 1..Len(M[i]) |-> StdValue(params[j], M[i][j])]]

StdMean(params) == [j \in 1..Len(params) |-> [num |-> params[j].s, den |-> params[j].n, rad |-> 1]]
StdScale(params) ==
    [j \in 1..Len(params) |->
        IF params[j].d = 0 THEN I(1)
        ELSE [num |-> params[j].d, den |-> params[j].n, rad |-> params[j].d]]

RECURSIVE SumSqDev(_, _, _)
\* the sum over the column of (n*x - s)^2, n^2 times the squared deviations
SumSqDev(col, n, s) ==
    IF Len(col) = 0 THEN 0 ELSE Sq(n * col[1].num - s) + SumSqDev(Tail(col), n, s)

\* (the column divided by the sample deviation, with n - 1 for n)
ScaleColumnSample(col) ==
    LET n == Len(col)
        s == SumNum(col)
        D == SumSqDev(col, n, s)
    IN  [i \in 1..n |->
            IF D = 0 THEN [num |-> n * col[i].num - s, den |-> n, rad |-> 1]
            ELSE [num |-> (n * col[i].num - s) * (n - 1), den |-> 1, rad |-> D * (n - 1)]]

\* preprocessing.scale on one column: the mean s/n is taken off, then the
\* result is divided by the deviation sqrt(D/n^3) of the column, a zero
\* deviation replaced by 1:  (n*x - s)*n / sqrt(D*n).
ScaleColumn(col) ==
    LET n == Len(col)
        s == SumNum(col)
        D == SumSqDev(col, n, s)
    IN  [i \in 1..n |->
            IF D = 0 THEN [num |-> n * col[i].num - s, den |-> n, rad |-> 1]
            ELSE [num |-> (n * col[i].num - s) * n, den |-> 1, rad |-> D * n]]

Scale(M) == [i \in 1..NRows(M) |-> [j \in 1..NCols(M) |-> ScaleColumn(Column(M, j))[i]]]

\* ndarray.mean(0) and ndarray.std(0) of a column whose entries share den
\* and rad, as the columns of a scaled array do
ColMean(col) == [num |-> SumNum(col), den |-> Len(col) * col[1].den, rad |-> col[1].rad]
ColStd(col) ==
    LET n == Len(col)
        A == n * SumSq(col) - Sq(SumNum(col))
        B == Sq(n) * Sq(col[1].den) * col[1].rad
    IN  IF A = 0 THEN I(0) ELSE [num |-> A, den |-> 1, rad |-> A * B]

\* MinMaxScaler.fit: per column data_min_ and data_max_.
MinMaxFitColumn(col) ==
    LET c == Present(col) IN [min |-> MinNum(c), max |-> MaxNum(c)]

MinMaxFit(M) == [j \in 1..NCols(M) |-> MinMaxFitColumn(Column(M, j))]

\* (the scaled value cut off at 0 and at 1)
MinMaxValueClipped(p, x) ==
    IF IsNaN(x) THEN NaN
    ELSE IF x.num < p.min THEN I(0)
    ELSE IF x.num > p.max THEN I(1)
    ELSE [num |-> x.num - p.min,
          den |-> IF p.max = p.min THEN 1 ELSE p.max - p.min,
          rad |-> 1]

\* (x - data_min_) / (data_max_ - data_min_), a zero range replaced by 1.
MinMaxValue(p, x) ==
    IF IsNaN(x) THEN NaN
    ELSE [num |-> x.num - p.min,
          den |-> IF p.max = p.min THEN 1 ELSE p.max - p.min,
          rad |-> 1]

MinMaxTransform(params, M) ==
    [i \in 1..Len(M) |-> [j \in 1..Len(M[i]) |-> MinMaxValue(params[j], M[i][j])]]

----------------------------------------------------------------------------
(* pandas data frames *)

\* A DataFrame object: id tells objects apart (two names bound to one object
\* see each other's changes), cols are the column labels, m the rows.
\* index holds the row labels (index_col=0).
FrameIx(id, cols, index, m) ==
    [kind |-> "frame", id |-> id, cols |-> cols, index |-> index, m |-> m]
Frame(id, cols, m) == FrameIx(id, cols, [i \in 1..Len(m) |-> i], m)
Series(index, m) == [kind |-> "series", index |-> index, m |-> m]

HasCol(f, c) == \E j \in 1..Len(f.cols) : f.cols[j] = c
ColIndex(f, c) == CHOOSE j \in 1..Len(f.cols) : f.cols[j] = c
ColumnOf(f, c) == Column(f.m, ColIndex(f, c))

RECURSIVE KeepIndices(_, _, _)
\* the indices j..n for which keep[j] holds, in order
KeepIndices(keep, j, n) ==
    IF j > n THEN <<>>
    ELSE IF keep[j] THEN <<j>> \o KeepIndices(keep, j + 1, n)
    ELSE KeepIndices(keep, j + 1, n)

SelectCols(M, idx) == [i \in 1..Len(M) |-> [k \in 1..Len(idx) |-> M[i][idx[k]]]]
SelectRows(M, idx) == [k \in 1..Len(idx) |-> M[idx[k]]]

\* f.drop(labels=labels, axis=1): a new frame without those columns
DropCols(f, labels) ==
    LET keep == [j \in 1..Len(f.cols) |-> f.cols[j] \notin labels]
        idx == KeepIndices(keep, 1, Len(f.cols))
    IN  FrameIx("drop", [k \in 1..Len(idx) |-> f.cols[idx[k]]], f.index, SelectCols(f.m, idx))

\* f.dropna(): a new frame with the rows that have no missing entry
DropNa(f) ==
    LET keep == [i \in 1..Len(f.m) |-> \A j \in 1..Len(f.m[i]) : ~IsNaN(f.m[i][j])]
        idx == KeepIndices(keep, 1, Len(f.m))
    IN  FrameIx("dropna", f.cols, SelectRows(f.index, idx), SelectRows(f.m, idx))

\* f.pop(c) on the object bound to x: the column leaves the object, so every
\* name bound to that object sees the frame without it.
PopColumn(w, x, c) ==
    LET f == Val(w.ns, x)
        g == [DropCols(f, {c}) EXCEPT !.id = f.id]
    IN  [w EXCEPT !.ns = [n \in DOMAIN w.ns |->
            IF Bound(w.ns, n) /\ Val(w.ns, n).kind = "frame" /\ Val(w.ns, n).id = f.id
            THEN Some(g) ELSE w.ns[n]]]

\* f.isnull().sum(0): the number of missing entries of each column
NullCounts(f) ==
    [j \in 1..Len(f.cols) |-> I(Cardinality({i \in 1..Len(f.m) : IsNaN(f.m[i][j])}))]

----------------------------------------------------------------------------
(* The library's Imputer *)

\* statistics_ for strategy='mean': the mean of the entries present, NaN for
\* a column with none
MeanStat(col) ==
    LET c == Present(col) IN
    IF Len(c) = 0 THEN NaN ELSE [num |-> SumNum(c), den |-> Len(c), rad |-> 1]

\* statistics_ for strategy='most_frequent': the most frequent entry present,
\* the smallest of them on a tie
ModeStat(col) ==
    LET c == Present(col)
        vals == {c[i].num : i \in 1..Len(c)}
        cnt(v) == Cardinality({i \in 1..Len(c) : c[i].num = v})
    IN  IF Len(c) = 0 THEN NaN
        ELSE I(CHOOSE v \in vals : \A u \in vals : cnt(v) > cnt(u) \/ (cnt(v) = cnt(u) /\ v <= u))

MeanFit(M) == [j \in 1..NCols(M) |-> MeanStat(Column(M, j))]
ModeFit(M) == [j \in 1..NCols(M) |-> ModeStat(Column(M, j))]

\* (an imputer that fills with the statistic of the first column)
ImputeFirstStat(stats, M) ==
    [i \in 1..Len(M) |-> [j \in 1..Len(M[i]) |-> IF IsNaN(M[i][j]) THEN stats[1] ELSE M[i][j]]]

\* Imputer.transform with axis=0: the columns that had no entry at fit are
\* dropped; in the others a missing entry becomes the column's statistic.
ImputeTransform(stats, M) ==
    LET keep == [j \in 1..Len(stats) |-> ~IsNaN(stats[j])]
        idx == KeepIndices(keep, 1, Len(stats))
    IN  [i \in 1..Len(M) |-> [k \in 1..Len(idx) |->
            IF IsNaN(M[i][idx[k]]) THEN stats[idx[k]] ELSE M[i][idx[k]]]]

----------------------------------------------------------------------------
(* The library's Normalizer, RobustScaler and OneHotEncoder *)

RECURSIVE SumAbs(_)
SumAbs(s) ==
    IF Len(s) = 0 THEN 0
    ELSE (IF s[1].num < 0 THEN -s[1].num ELSE s[1].num) + SumAbs(Tail(s))

\* preprocessing.normalize(M, norm): every row divided by its norm, a zero
\* norm replaced by 1
NormalizeRow(row, norm) ==
    LET ss == SumSq(row)
        sa == SumAbs(row)
    IN  [j \in 1..Len(row) |->
            IF norm = "l2"
            THEN [num |-> row[j].num, den |-> 1, rad |-> IF ss = 0 THEN 1 ELSE ss]
            ELSE [num |-> row[j].num, den |-> IF sa = 0 THEN 1 ELSE sa, rad |-> 1]]

Normalize(M, norm) == [i \in 1..Len(M) |-> NormalizeRow(M[i], norm)]

\* Normalizer.fit keeps nothing but the norm it was built with
NormalizerFit(M) == [j \in 1..NCols(M) |-> "l2"]

\* the k-th smallest entry of a column, k from 1
KthSmallest(col, k) ==
    LET vals == {col[i].num : i \in 1..Len(col)}
    IN  CHOOSE v \in vals :
            /\ Cardinality({i \in 1..Len(col) : col[i].num < v}) < k
            /\ k <= Cardinality({i \in 1..Len(col) : col[i].num <= v})

\* four times np.percentile(col, 25 * q): linear interpolation between the
\* two closest ranks
Quartile4(col, q) ==
    LET f == ((Len(col) - 1) * q) \div 4
        r == ((Len(col) - 1) * q) % 4
        lo == KthSmallest(col, f + 1)
        hi == IF r = 0 THEN lo ELSE KthSmallest(col, f + 2)
    IN  4 * lo + r * (hi - lo)

\* RobustScaler.fit: per column center_ (the median) and scale_ (the
\* interquartile range), both kept times 4
RobustFitColumn(col) ==
    LET c == Present(col) IN
    IF Len(c) = 0 THEN [center4 |-> 0, iqr4 |-> 0]
    ELSE [center4 |-> Quartile4(c, 2), iqr4 |-> Quartile4(c, 3) - Quartile4(c, 1)]

RobustFit(M) == [j \in 1..NCols(M) |-> RobustFitColumn(Column(M, j))]

\* (x - center_) / scale_, a zero scale_ replaced by 1
RobustValue(p, x) ==
    IF IsNaN(x) THEN NaN
    ELSE [num |-> 4 * x.num - p.center4, den |-> IF p.iqr4 = 0 THEN 4 ELSE p.iqr4, rad |-> 1]

RobustTransform(params, M) ==
    [i \in 1..Len(M) |-> [j \in 1..Len(M[i]) |-> RobustValue(params[j], M[i][j])]]

\* OneHotEncoder.fit with n_values='auto': per feature n_values_ (the largest
\* value seen plus one) and the values seen, which are the active features
OneHotFitColumn(col) ==
    [n_values |-> MaxNum(col) + 1, seen |-> {col[i].num : i \in 1..Len(col)}]

OneHotFit(M) == [j \in 1..NCols(M) |-> OneHotFitColumn(Column(M, j))]

RECURSIVE SortSet(_)
\* the members of a finite set of integers in ascending order
SortSet(S) ==
    IF S = {} THEN <<>>
    ELSE LET m == CHOOSE v \in S : \A u \in S : v <= u
         IN  <<m>> \o SortSet(S \ {m})

RECURSIVE OneHotRowUpTo(_, _, _)
\* (indicator columns that mark every value up to the row's)
OneHotRowUpTo(params, row, j) ==
    IF j > Len(params) THEN <<>>
    ELSE LET vals == SortSet(params[j].seen)
         IN  [k \in 1..Len(vals) |-> IF vals[k] <= row[j].num THEN I(1) ELSE I(0)]
             \o OneHotRowUpTo(params, row, j + 1)

RECURSIVE OneHotRow(_, _, _)
\* the indicator columns of the features j.., one per active value
OneHotRow(params, row, j) ==
    IF j > Len(params) THEN <<>>
    ELSE LET vals == SortSet(params[j].seen)
         IN  [k \in 1..Len(vals) |-> IF row[j].num = vals[k] THEN I(1) ELSE I(0)]
             \o OneHotRow(params, row, j + 1)

\* handle_unknown='error': a value outside 0..n_values_-1 is rejected
OneHotKnown(params, M) ==
    \A i \in 1..Len(M) : \A j \in 1..Len(M[i]) :
        M[i][j].num >= 0 /\ M[i][j].num < params[j].n_values

OneHotTransform(params, M) == [i \in 1..Len(M) |-> OneHotRow(params, M[i], 1)]

----------------------------------------------------------------------------
(* The library's PCA *)

\* PCA(n_components=2, whiten=True)
NComponents == 2

\* PCA.fit: the decomposition is not computed; the fitted object keeps, per
\* feature, the data's column mean, and what it was fitted on is logged.
PCAFit(M) == MeanFit(M)

\* PCA.transform: per row one term for each of the components
PCATransform(params, M) ==
    [i \in 1..Len(M) |-> [k \in 1..NComponents |-> [component |-> k, x |-> M[i]]]]

----------------------------------------------------------------------------
(* Estimator objects: fit, transform, fit_transform *)

FitParams(cls, M) ==
    CASE cls = "StandardScaler" -> StdFit(M)
      [] cls = "MinMaxScaler" -> MinMaxFit(M)
      [] cls = "Imputer.mean" -> MeanFit(M)
      [] cls = "Imputer.most_frequent" -> ModeFit(M)
      [] cls = "Normalizer" -> NormalizerFit(M)
      [] cls = "RobustScaler" -> RobustFit(M)
      [] cls = "OneHotEncoder" -> OneHotFit(M)
      [] cls = "PCA" -> PCAFit(M)

ApplyParams(cls, params, M) ==
    CASE cls = "StandardScaler" -> StdTransform(params, M)
      [] cls = "MinMaxScaler" -> MinMaxTransform(params, M)
      [] cls = "Imputer.mean" -> ImputeTransform(params, M)
      [] cls = "Imputer.most_frequent" -> ImputeTransform(params, M)
      [] cls = "Normalizer" -> Normalize(M, "l2")
      [] cls = "RobustScaler" -> RobustTransform(params, M)
      [] cls = "OneHotEncoder" -> OneHotTransform(params, M)
      [] cls = "PCA" -> PCATransform(params, M)

\* x = Cls(): a new object, which no fit has seen yet.
New(w, x, cls) == [Bind(w, x, Estimator(cls)) EXCEPT !.log[x] = None]

\* A read of a fitted attribute, a transform or a predict of the object bound
\* to obj is recorded with whether the object had been fitted; of the uses
\* a cell makes, the first of an unfitted object stays on record.
Used(w, obj) ==
    IF w.log["use"] # None /\ ~w.log["use"][1].fitted THEN w
    ELSE Logged(w, "use", [obj |-> obj, fitted |-> Val(w.ns, obj).fitted])

\* What est.fit(M) accepts: a non-empty matrix of plain numbers, with NaN
\* for a missing entry where the class allows one.
AllowsNaN(cls) == cls \in {"StandardScaler", "MinMaxScaler", "Imputer.mean", "Imputer.most_frequent"}

Fittable(M) ==
    /\ NRows(M) > 0 /\ NCols(M) > 0
    /\ \A i \in 1..Len(M) : \A j \in 1..Len(M[i]) : IsInt(M[i][j]) \/ IsNaN(M[i][j])

FittableBy(cls, M) ==
    /\ Fittable(M)
    /\ HasNaN(M) => AllowsNaN(cls)
    /\ cls = "OneHotEncoder" => \A i \in 1..Len(M) : \A j \in 1..Len(M[i]) : M[i][j].num >= 0
    /\ cls = "PCA" => NRows(M) >= NComponents /\ NCols(M) >= NComponents

\* est.fit(data) on the object bound to `obj`: the object itself is changed.
FitObject(w, obj, M) ==
    IF ~FittableBy(Val(w.ns, obj).cls, M) THEN Raise(w, "ValueError")
    ELSE LET est == Val(w.ns, obj)
             fitted == [est EXCEPT !.fitted = TRUE, !.params = FitParams(est.cls, M)]
         IN  Logged(Bind(w, obj, fitted), obj, M)

\* (a transform that fits again on the data it is given)
TransformRefits(w, obj, M) ==
    LET w1 == FitObject(w, obj, M) IN
    IF w1.err # "ok" THEN w1
    ELSE Show(w1, Array(ApplyParams(Val(w1.ns, obj).cls, Val(w1.ns, obj).params, M)))

\* est.transform(data): reads the fitted parameters, displays the result.
TransformObject(w, obj, M) ==
    LET est == Val(w.ns, obj)
        u == Used(w, obj)
    IN
    IF est.cls = "Normalizer" THEN Show(u, Array(Normalize(M, "l2")))
    ELSE IF ~est.fitted THEN Raise(u, "NotFittedError")
    ELSE IF NCols(M) # Len(est.params) THEN Raise(u, "ValueError")
    ELSE IF est.cls = "OneHotEncoder" /\ ~OneHotKnown(est.params, M) THEN Raise(u, "ValueError")
    ELSE Show(u, Array(ApplyParams(est.cls, est.params, M)))

\* est.fit_transform(data) is fit(data) followed by transform(data).
FitTransformObject(w, obj, M) ==
    Then(FitObject(w, obj, M), LAMBDA v : TransformObject(v, obj, M))

----------------------------------------------------------------------------
(* The library's LogisticRegression *)

\* The regularisation strength C is kept in tenths: C = 0.1 is 1.
LogReg(c10, penalty) ==
    [kind |-> "estimator", cls |-> "LogisticRegression", fitted |-> FALSE,
     params |-> <<>>, C10 |-> c10, penalty |-> penalty]

DefaultC10 == 10

Classes(y) == {y[i] : i \in 1..Len(y)}

\* x = LogisticRegression(...)
NewLogReg(w, x, c10, penalty) ==
    [Bind(w, x, LogReg(c10, penalty)) EXCEPT !.log[x] = None]

\* est.fit(X, y) on the object bound to obj; idx are the positions the rows were
\* taken from.  The solver's coefficients are not computed: the fitted
\* object keeps the number of features and the classes it has seen.
FitLogReg(w, obj, xs, ys, idx) ==
    IF \/ NRows(xs) = 0 \/ Len(ys) # NRows(xs)
       \/ HasNaN(xs) \/ (\E i \in 1..Len(ys) : IsNaN(ys[i]))
       \/ HasText(xs) \/ (\E i \in 1..Len(ys) : IsText(ys[i]))
       \/ Cardinality(Classes(ys)) < 2
    THEN Raise(w, "ValueError")
    ELSE LET est == Val(w.ns, obj)
             fitted == [est EXCEPT !.fitted = TRUE,
                                   !.params = [n_features |-> NCols(xs), classes |-> Classes(ys)]]
         IN  Logged(Bind(w, obj, fitted), obj, [idx |-> idx, X |-> xs, y |-> ys])

\* The label a fitted model gives the row x: a term naming the model's
\* hyperparameters and the row, since the value rests on the solver.
Predicted(est, x) == [C10 |-> est.C10, penalty |-> est.penalty, x |-> x]

\* est.coef_[0] of a fitted model: one term per feature
Coef(est) ==
    [j \in 1..est.params.n_features |-> [C10 |-> est.C10, penalty |-> est.penalty, feature |-> j]]

\* arr[mask] for a boolean mask: the rows at the positions where mask is true
MaskSelect(arr, mask) ==
    LET idx == KeepIndices([i \in 1..Len(mask) |-> mask[i].num # 0], 1, Len(mask))
    IN  [idx |-> idx, m |-> SelectRows(arr, idx)]

\* ~mask
Negate(mask) == [i \in 1..Len(mask) |-> IF mask[i].num # 0 THEN I(0) ELSE I(1)]

\* np.isnan(y)
IsNanMask(y) == [i \in 1..Len(y) |-> IF IsNaN(y[i]) THEN I(1) ELSE I(0)]

\* est.predict(rows) of the object bound to obj
PredictRows(w, obj, sel) ==
    LET est == Val(w.ns, obj)
        u == Used(w, obj)
    IN
    IF ~est.fitted THEN Raise(u, "NotFittedError")
    ELSE IF NRows(sel.m) = 0 \/ NCols(sel.m) # est.params.n_features THEN Raise(u, "ValueError")
    ELSE LET w1 == Logged(u, "predict", [est |-> obj, idx |-> sel.idx])
         IN  Show(w1, Array([i \in 1..Len(sel.m) |-> Predicted(est, sel.m[i])]))

----------------------------------------------------------------------------
(* The library's label encoders *)

\* A sequence of integer labels as a one-dimensional array.
Vector(q) == [i \in 1..Len(q) |-> I(q[i])]

RECURSIVE FirstSeen(_)
\* (the distinct labels in the order of their first occurrence)
FirstSeen(labels) ==
    IF Len(labels) = 0 THEN <<>>
    ELSE LET rest == FirstSeen(SubSeq(labels, 1, Len(labels) - 1))
             last == labels[Len(labels)]
         IN  IF last \in SeqSet(rest) THEN rest ELSE Append(rest, last)

\* classes_: the distinct labels in ascending order
LabelClasses(labels) == SortSet({labels[i] : i \in 1..Len(labels)})

RECURSIVE Union(_)
\* the labels of all the label sets of a sequence
Union(sets) == IF Len(sets) = 0 THEN {} ELSE SeqSet(sets[1]) \cup Union(Tail(sets))

\* est.fit(labels) of a LabelBinarizer or LabelEncoder
FitLabels(w, obj, labels) ==
    IF Len(labels) = 0 THEN Raise(w, "ValueError")
    ELSE LET est == Val(w.ns, obj)
             fitted == [est EXCEPT !.fitted = TRUE, !.params = LabelClasses(labels)]
         IN  Logged(Bind(w, obj, fitted), obj, labels)

\* est.classes_
ReadClasses(w, obj) ==
    LET est == Val(w.ns, obj) IN
    IF est.fitted THEN Show(Used(w, obj), Array(Vector(est.params)))
    ELSE Raise(Used(w, obj), "AttributeError")

\* LabelBinarizer.transform: one indicator column per class, a single column
\* when there are at most two classes
Binarize(classes, labels) ==
    [i \in 1..Len(labels) |->
        IF Len(classes) <= 2
        THEN <<I(IF Len(classes) = 2 /\ labels[i] = classes[2] THEN 1 ELSE 0)>>
        ELSE [k \in 1..Len(classes) |-> I(IF labels[i] = classes[k] THEN 1 ELSE 0)]]

BinarizeLabels(w, obj, labels) ==
    LET est == Val(w.ns, obj) IN
    IF ~est.fitted THEN Raise(Used(w, obj), "NotFittedError")
    ELSE Show(Used(w, obj), Array(Binarize(est.params, labels)))

\* MultiLabelBinarizer.fit_transform: classes_ are the labels of all the sets,
\* a row marks the classes of its set
FitTransformMultiLabel(w, obj, sets) ==
    LET est == Val(w.ns, obj)
        classes == SortSet(Union(sets))
        fitted == [est EXCEPT !.fitted = TRUE, !.params = classes]
        w1 == Logged(Bind(w, obj, fitted), obj, sets)
    IN  Show(w1, Array([i \in 1..Len(sets) |->
                [k \in 1..Len(classes) |-> I(IF classes[k] \in SeqSet(sets[i]) THEN 1 ELSE 0)]]))

\* (the position of a label among the classes, from 1)
EncodeFromOne(classes, label) == CHOOSE k \in 1..Len(classes) : classes[k] = label

\* the position of a label among the classes, from 0
Encode(classes, label) == (CHOOSE k \in 1..Len(classes) : classes[k] = label) - 1

\* LabelEncoder.transform: a label that fit has not seen is rejected
EncodeLabels(w, obj, labels) ==
    LET est == Val(w.ns, obj) IN
    IF ~est.fitted THEN Raise(Used(w, obj), "NotFittedError")
    ELSE IF \E i \in 1..Len(labels) : labels[i] \notin SeqSet(est.params)
         THEN Raise(Used(w, obj), "ValueError")
    ELSE Show(Used(w, obj), Array(Vector([i \in 1..Len(labels) |-> Encode(est.params, labels[i])])))

\* LabelEncoder.inverse_transform: a code outside 0..n_classes-1 is rejected
DecodeLabels(w, obj, codes) ==
    LET est == Val(w.ns, obj) IN
    IF ~est.fitted THEN Raise(Used(w, obj), "NotFittedError")
    ELSE IF \E i \in 1..Len(codes) : codes[i] \notin 0..(Len(est.params) - 1)
         THEN Raise(Used(w, obj), "ValueError")
    ELSE Show(Used(w, obj), Array(Vector([i \in 1..Len(codes) |-> est.params[codes[i] + 1]])))

----------------------------------------------------------------------------
(* pandas arithmetic and sklearn.model_selection.train_test_split *)

\* col.replace(mapping): a text entry that is a key of the mapping becomes
\* the number it maps to
Replace(col, mapping) ==
    [i \in 1..Len(col) |->
        IF IsText(col[i]) /\ col[i].text \in DOMAIN mapping THEN I(mapping[col[i].text])
        ELSE col[i]]

\* f[labels]: the columns with those labels, in the order asked for
Columns(f, labels) ==
    LET idx == [k \in 1..Len(labels) |-> ColIndex(f, labels[k])]
    IN  FrameIx("getitem", labels, f.index, SelectCols(f.m, idx))

\* (x - mean) / std of a column, std with n - 1 in the denominator; NaN when
\* the column has one row or no spread
PandasStdValue(col, x) ==
    LET p == StdFitColumn(col) IN
    IF IsNaN(x) \/ p.n < 2 \/ p.d = 0 THEN NaN
    ELSE [num |-> (p.n * x.num - p.s) * (p.n - 1), den |-> 1, rad |-> p.n * p.d * (p.n - 1)]

\* (X - X.mean(axis=0)) / X.std(axis=0): a new frame
PandasStandardize(f) ==
    FrameIx("arith", f.cols, f.index,
            [i \in 1..Len(f.m) |-> [j \in 1..Len(f.m[i]) |-> PandasStdValue(Column(f.m, j), f.m[i][j])]])

\* f[c] = col on a frame: a new last column, or the column c replaced
SetColumn(f, c, col) ==
    IF HasCol(f, c)
    THEN [f EXCEPT !.m = [i \in 1..Len(f.m) |-> [f.m[i] EXCEPT ![ColIndex(f, c)] = col[i]]]]
    ELSE [f EXCEPT !.cols = Append(f.cols, c),
                   !.m = [i \in 1..Len(f.m) |-> Append(f.m[i], col[i])]]

\* (a test share rounded down)
TestCountFloor(n) == n \div 4

\* test_size defaults to 0.25: ceil(0.25 * n) rows are for testing
TestCount(n) == (n + 3) \div 4

\* train_test_split(X0, y): shuffle is a permutation of the row positions;
\* the first TestCount positions of it are the test rows and the others the
\* training rows, of every array alike.  Returns the positions.
SplitPositions(n, shuffle) ==
    [test |-> [k \in 1..TestCount(n) |-> shuffle[k]],
     train |-> [k \in 1..(n - TestCount(n)) |-> shuffle[TestCount(n) + k]]]

\* f.iloc[positions] of a frame or a series
Take(f, positions) ==
    [f EXCEPT !.index = SelectRows(f.index, positions), !.m = SelectRows(f.m, positions)]

----------------------------------------------------------------------------
(* Executing a cell *)

\* The world a cell starts in: nothing displayed yet, no fitted object used,
\* no file read and no argument typed by this cell.
Fresh == World(ns, None, [log EXCEPT !["use"] = None, !["read_csv"] = None, !["arg"] = None])

\* name lookup: an unbound name raises NameError
Lookup(w, x, F(_)) == IF Bound(w.ns, x) THEN F(Val(w.ns, x)) ELSE Raise(w, "NameError")

Halted == 1000

\* The code cells of each notebook, top to bottom.
PrepOrder ==
    << "ScaleX", "ScaledMean", "ScaledStd", "FitScaler", "ScalerMean", "ScalerScale", "ScalerTransformX",
       "ScalerTransformNew", "MakeBlobs", "PlotRaw", "DefPlotScaled",
       "PlotStandard", "FitMinMax", "MinMaxTransformTest", "PlotMinMax",
       "NormalizeL2", "NormalizeL1", "FitNormalizer", "NormalizerTransformTest",
       "PlotNormalizer", "FitRobust", "MakeOutliers", "PlotOutliers", "PlotRobust",
       "NewEncoder", "FitEncoder", "EncoderTransform", "FitLabelBinarizer",
       "LbClasses", "LbTransform", "FitMultiLabel", "MlbClasses", "FitLabelEncoder",
       "LeClasses", "LeTransform", "LeInverse",
       "LoadTestScores", "CountMissing", "NewImputer", "FitImputer", "ImputeX",
       "NewModeImputer", "FitModeImputer", "ModeTransform", "SiblingsMean",
       "FillSiblings", "Correlation", "DropColumns", "PopAndScale", "FitMod",
       "PredictMissing", "FitMod2", "FitMod3", "MultipleImputation",
       "ShowImputations" >>

IntroOrder ==
    << "LoadIris", "IrisKeys", "IrisShape", "IrisFirstRow", "IrisFeatures", "IrisTargets",
       "IrisNames", "IrisFrame", "PairPlot", "FitPCA", "PCARatio", "PlotPCA",
       "LoadVlbw", "Split", "NewLrmod", "FitLrmod", "CrossTabTrain", "CrossTabTest",
       "ShowCoef", "Bootstrap", "SortBoot", "BootSE", "PlotCoefs" >>

Order(book) == IF book = "prep" THEN PrepOrder ELSE IntroOrder

\* The cell belongs to the open notebook and, under Run All, is the next to run.
Due(cell) ==
    /\ \E k \in 1..Len(Order(nb)) : Order(nb)[k] = cell
    /\ IF pc = 0 THEN TRUE ELSE pc <= Len(Order(nb)) /\ Order(nb)[pc] = cell

\* The kernel runs `cell`, whose statements take the world to w.  Interactive
\* use (pc = 0) may run any cell at any time; Run All (pc > 0) runs the cell
\* at position pc and stops at the first cell that raises.
Exec(cell, w) ==
    /\ Due(cell)
    /\ ns' = w.ns
    /\ out' = IF w.err = "ok" THEN w.out ELSE None
    /\ log' = w.log
    /\ status' = [cell |-> cell, err |-> w.err, again |-> (status.cell = cell)]
    /\ pc' = IF pc = 0 THEN 0 ELSE IF w.err = "ok" THEN pc + 1 ELSE Halted
    /\ UNCHANGED <<nb, env>>

----------------------------------------------------------------------------
(* Day2_2-Data-Preprocessing: the scaling cells *)

XLiteral == Mat(<< <<1, -1, 2>>, <<2, 0, 0>>, <<0, 1, -1>> >>)
NewRowLiteral == Mat(<< <<-1, 1, 0>> >>)
XTestLiteral == Mat(<< <<-3, -1, 4>> >>)

\* X = np.array(M); X_scaled = preprocessing.scale(X); X_scaled
ScaleXOf(w, M) ==
    LET w1 == Bind(w, "X", Array(M))
        w2 == Bind(w1, "X_scaled", Array(Scale(M)))
    IN  Show(w2, Val(w2.ns, "X_scaled"))

\* the cell as the notebook has it
ScaleX(w) == ScaleXOf(w, XLiteral)

\* X_scaled.mean(0)
ScaledMean(w) ==
    Lookup(w, "X_scaled", LAMBDA a :
        Show(w, Array([j \in 1..NCols(a.m) |-> ColMean(Column(a.m, j))])))

\* X_scaled.std(0)
ScaledStd(w) ==
    Lookup(w, "X_scaled", LAMBDA a :
        Show(w, Array([j \in 1..NCols(a.m) |-> ColStd(Column(a.m, j))])))

\* (a scaler that is built and never fitted)
NewScalerOnly(w) ==
    Lookup(w, "X", LAMBDA x :
        LET w1 == New(w, "scaler", "StandardScaler") IN Show(w1, Val(w1.ns, "scaler")))

\* scaler = preprocessing.StandardScaler().fit(X); scaler
FitScaler(w) ==
    Lookup(w, "X", LAMBDA x :
        LET w1 == FitObject(New(w, "scaler", "StandardScaler"), "scaler", x.m)
        IN  IF w1.err = "ok" THEN Show(w1, Val(w1.ns, "scaler"))
            ELSE Raise(w, w1.err))

\* scaler.mean_
ScalerMean(w) ==
    Lookup(w, "scaler", LAMBDA e :
        IF e.fitted THEN Show(Used(w, "scaler"), Array(<<StdMean(e.params)>>))
        ELSE Raise(Used(w, "scaler"), "AttributeError"))

\* scaler.scale_
ScalerScale(w) ==
    Lookup(w, "scaler", LAMBDA e :
        IF e.fitted THEN Show(Used(w, "scaler"), Array(<<StdScale(e.params)>>))
        ELSE Raise(Used(w, "scaler"), "AttributeError"))

\* scaler.transform(X)
ScalerTransformX(w) ==
    Lookup(w, "scaler", LAMBDA e :
        Lookup(w, "X", LAMBDA x : TransformObject(w, "scaler", x.m)))

\* scaler.transform([[-1., 1., 0.]])
ScalerTransformNew(w) ==
    Lookup(w, "scaler", LAMBDA e : TransformObject(w, "scaler", NewRowLiteral))

\* make_blobs(n_samples=50, centers=2, random_state=4, cluster_std=1): the
\* generator's output is fixed by random_state; env.blobs holds it.
NSamples == 50

\* X_raw, y = make_blobs(...); X_raw += 3; X_raw[:, 1] *= 5
MakeBlobs(w) ==
    LET raw == env.blobs.X
        shifted == [i \in 1..Len(raw) |-> <<I(raw[i][1].num + 3), I((raw[i][2].num + 3) * 5)>>]
    IN  Bind(Bind(w, "X_raw", Array(shifted)), "y", Array(env.blobs.y))

\* def format_axes(ax): ...; raw_plot = plt.scatter(X_raw[:, 0], X_raw[:, 1], c=y, ...)
PlotRaw(w) ==
    LET w1 == Bind(w, "format_axes", Function("format_axes")) IN
    Lookup(w1, "X_raw", LAMBDA x :
        Lookup(w1, "y", LAMBDA c :
            IF Len(c.m) # NRows(x.m) THEN Raise(w1, "ValueError")
            ELSE Show(w1, Figure("Original Data", NRows(x.m)))))

\* def plot_scaled(X, y, scaler): ...
DefPlotScaled(w) == Bind(w, "plot_scaled", Function("plot_scaled"))

\* The body of plot_scaled(X, y, scaler), called with the objects bound to
\* the names xs, ys and obj: the caller's scaler object is fitted again.
PlotScaled(w, xs, ys, obj) ==
    Lookup(w, "plot_scaled", LAMBDA f :
        Lookup(w, xs, LAMBDA x :
            Lookup(w, ys, LAMBDA c :
                Lookup(w, obj, LAMBDA e :
                    LET w1 == FitTransformObject(w, obj, x.m) IN
                    IF w1.err # "ok" THEN w1
                    ELSE IF Len(c.m) # NRows(x.m) THEN Raise(w1, "ValueError")
                    ELSE IF ~Bound(w1.ns, "format_axes") THEN Raise(w1, "NameError")
                    ELSE Show(w1, Figure(e.cls, NRows(x.m)))))))

\* plot_scaled(X_raw, y, scaler)
PlotStandard(w) == PlotScaled(w, "X_raw", "y", "scaler")

\* min_max_scaler = preprocessing.MinMaxScaler(); min_max_scaler.fit_transform(X)
FitMinMax(w) ==
    LET w1 == New(w, "min_max_scaler", "MinMaxScaler") IN
    Lookup(w1, "X", LAMBDA x : FitTransformObject(w1, "min_max_scaler", x.m))

\* X_test = np.array([[ -3., -1.,  4.]]); min_max_scaler.transform(X_test)
MinMaxTransformTest(w) ==
    LET w1 == Bind(w, "X_test", Array(XTestLiteral)) IN
    Lookup(w1, "min_max_scaler", LAMBDA e : TransformObject(w1, "min_max_scaler", XTestLiteral))

\* plot_scaled(X_raw, y, min_max_scaler)
PlotMinMax(w) == PlotScaled(w, "X_raw", "y", "min_max_scaler")

\* preprocessing.normalize(X, norm='l2')
NormalizeL2(w) == Lookup(w, "X", LAMBDA x : Show(w, Array(Normalize(x.m, "l2"))))

\* preprocessing.normalize(X, norm='l1')
NormalizeL1(w) == Lookup(w, "X", LAMBDA x : Show(w, Array(Normalize(x.m, "l1"))))

\* normalizer = preprocessing.Normalizer().fit(X)
FitNormalizer(w) ==
    Lookup(w, "X", LAMBDA x :
        LET w1 == FitObject(New(w, "normalizer", "Normalizer"), "normalizer", x.m)
        IN  IF w1.err = "ok" THEN w1 ELSE Raise(w, w1.err))

\* normalizer.transform(X_test)
NormalizerTransformTest(w) ==
    Lookup(w, "normalizer", LAMBDA e :
        Lookup(w, "X_test", LAMBDA x : TransformObject(w, "normalizer", x.m)))

\* plot_scaled(X_raw, y, normalizer)
PlotNormalizer(w) == PlotScaled(w, "X_raw", "y", "normalizer")

\* robust_scaler = preprocessing.RobustScaler(); robust_scaler.fit_transform(X)
FitRobust(w) ==
    LET w1 == New(w, "robust_scaler", "RobustScaler") IN
    Lookup(w1, "X", LAMBDA x : FitTransformObject(w1, "robust_scaler", x.m))

OutlierRows == Mat(<< <<7, -14>>, <<14, 85>> >>)
OutlierLabels == Vector(<<0, 1>>)

\* X_outlier = np.vstack([X_raw, [[7., -14.], [14, 85]]]); y_outlier = np.append(y, [0, 1])
\* (y_outlier with one label appended for the two rows)
MakeOutliersOneLabel(w) ==
    Lookup(w, "X_raw", LAMBDA x :
        IF NCols(x.m) # NCols(OutlierRows) THEN Raise(w, "ValueError")
        ELSE LET w1 == Bind(w, "X_outlier", Array(x.m \o OutlierRows))
             IN  Lookup(w1, "y", LAMBDA c : Bind(w1, "y_outlier", Array(c.m \o <<I(0)>>))))

MakeOutliers(w) ==
    Lookup(w, "X_raw", LAMBDA x :
        IF NCols(x.m) # NCols(OutlierRows) THEN Raise(w, "ValueError")
        ELSE LET w1 == Bind(w, "X_outlier", Array(x.m \o OutlierRows))
             IN  Lookup(w1, "y", LAMBDA c : Bind(w1, "y_outlier", Array(c.m \o OutlierLabels))))

\* the largest absolute value of a column
MaxAbs(col) == LET hi == MaxNum(col) lo == MinNum(col) IN IF -lo > hi THEN -lo ELSE hi

\* outlier_plot = plt.scatter(*X_outlier.T, c=y_outlier, ...); maxx = ...; maxy = ...
PlotOutliers(w) ==
    Lookup(w, "X_outlier", LAMBDA x :
        Lookup(w, "y_outlier", LAMBDA c :
            IF Len(c.m) # NRows(x.m) THEN Raise(w, "ValueError")
            ELSE LET w1 == Bind(Bind(w, "maxx", Array(<<I(MaxAbs(Column(x.m, 1)))>>)),
                                "maxy", Array(<<I(MaxAbs(Column(x.m, 2)))>>))
                 IN  IF ~Bound(w1.ns, "format_axes") THEN Raise(w1, "NameError")
                     ELSE Show(w1, Figure("Original Data with outliers", NRows(x.m)))))

\* plot_scaled(X_outlier, y_outlier, robust_scaler)
PlotRobust(w) == PlotScaled(w, "X_outlier", "y_outlier", "robust_scaler")

\* enc = preprocessing.OneHotEncoder()
NewEncoder(w) == New(w, "enc", "OneHotEncoder")

EncFitLiteral == Mat(<< <<0, 0, 3>>, <<1, 1, 0>>, <<0, 2, 1>>, <<1, 0, 2>> >>)
EncRowLiteral == Mat(<< <<0, 1, 3>> >>)

\* enc.fit([[0, 0, 3], [1, 1, 0], [0, 2, 1], [1, 0, 2]])
FitEncoder(w) ==
    Lookup(w, "enc", LAMBDA e :
        Then(FitObject(w, "enc", EncFitLiteral), LAMBDA v : Show(v, Val(v.ns, "enc"))))

\* enc.transform([[0, 1, 3]]).toarray()
EncoderTransform(w) ==
    Lookup(w, "enc", LAMBDA e : TransformObject(w, "enc", EncRowLiteral))

LbFitLiteral == <<1, 2, 6, 4, 2>>
LbRowLiteral == <<1, 4>>
MlbLiteral == << <<1, 2>>, <<3>> >>
LeFitLiteral == <<1, 2, 2, 6>>
LeRowLiteral == <<1, 1, 2, 6>>
LeCodeLiteral == <<0, 0, 1, 2>>

\* lb = preprocessing.LabelBinarizer(); lb.fit([1, 2, 6, 4, 2])
FitLabelBinarizer(w) ==
    Then(FitLabels(New(w, "lb", "LabelBinarizer"), "lb", LbFitLiteral),
         LAMBDA v : Show(v, Val(v.ns, "lb")))

\* lb.classes_
LbClasses(w) == Lookup(w, "lb", LAMBDA e : ReadClasses(w, "lb"))

\* lb.transform((1,4))
LbTransform(w) ==
    Lookup(w, "lb", LAMBDA e :
        IF e.cls # "LabelBinarizer" THEN Raise(w, "TypeError")
        ELSE BinarizeLabels(w, "lb", LbRowLiteral))

\* lb = preprocessing.MultiLabelBinarizer(); lb.fit_transform([(1, 2), (3,)])
FitMultiLabel(w) == FitTransformMultiLabel(New(w, "lb", "MultiLabelBinarizer"), "lb", MlbLiteral)

\* lb.classes_ (of the MultiLabelBinarizer)
MlbClasses(w) == Lookup(w, "lb", LAMBDA e : ReadClasses(w, "lb"))

\* le = preprocessing.LabelEncoder(); le.fit([1,2,2,6])
FitLabelEncoder(w) ==
    Then(FitLabels(New(w, "le", "LabelEncoder"), "le", LeFitLiteral),
         LAMBDA v : Show(v, Val(v.ns, "le")))

\* le.classes_
LeClasses(w) == Lookup(w, "le", LAMBDA e : ReadClasses(w, "le"))

\* le.transform([1, 1, 2, 6])
LeTransform(w) == Lookup(w, "le", LAMBDA e : EncodeLabels(w, "le", LeRowLiteral))

\* le.inverse_transform([0, 0, 1, 2])
LeInverse(w) == Lookup(w, "le", LAMBDA e : DecodeLabels(w, "le", LeCodeLiteral))

\* The encoder cells with the argument edited before the cell is run; the
\* argument typed is kept on record for the cell.
\* enc.transform([row]).toarray()
EncoderTransformOf(w, row) ==
    Lookup(w, "enc", LAMBDA e : TransformObject(Logged(w, "arg", row), "enc", Mat(<<row>>)))

\* le = preprocessing.LabelEncoder(); le.fit(labels)
FitLabelEncoderOf(w, labels) ==
    Then(FitLabels(New(Logged(w, "arg", labels), "le", "LabelEncoder"), "le", labels),
         LAMBDA v : Show(v, Val(v.ns, "le")))

\* le.transform(labels)
LeTransformOf(w, labels) ==
    Lookup(w, "le", LAMBDA e : EncodeLabels(Logged(w, "arg", labels), "le", labels))

\* le.inverse_transform(codes)
LeInverseOf(w, codes) ==
    Lookup(w, "le", LAMBDA e : DecodeLabels(Logged(w, "arg", codes), "le", codes))

----------------------------------------------------------------------------
(* Day2_2-Data-Preprocessing: the missing-data cells *)

\* The predictors listed for the educational-outcomes data, and the score.
TestScoresCols ==
    << "score", "male", "siblings", "family_inv", "non_english", "prev_disab",
       "non_white", "age_test", "non_severe_hl", "mother_hs", "early_ident" >>

\* (a read that swallows the failure and binds an empty frame)
ReadCsvSwallow(w, x, cols, file, ok) ==
    LET w1 == Logged(w, "read_csv", [name |-> x, attempts |-> 1, ok |-> ok]) IN
    IF ok THEN Bind(w1, x, Frame("read_csv", cols, file))
    ELSE Bind(w1, x, Frame("read_csv", cols, <<>>))

\* x = pd.read_csv(path, index_col=0): the file's table, or the error the
\* file layer raises, which nothing catches.
ReadCsv(w, x, cols, file, ok) ==
    LET w1 == Logged(w, "read_csv", [name |-> x, attempts |-> 1, ok |-> ok]) IN
    IF ok THEN Bind(w1, x, Frame("read_csv", cols, file))
    ELSE Raise(w1, "FileNotFoundError")

FirstRows(f, k) ==
    LET idx == [i \in 1..(IF Len(f.m) < k THEN Len(f.m) ELSE k) |-> i]
    IN  IF f.kind = "frame"
        THEN [f EXCEPT !.m = SelectRows(f.m, idx), !.index = SelectRows(f.index, idx)]
        ELSE [f EXCEPT !.m = SelectRows(f.m, idx)]
HeadRows == 5

\* test_scores = pd.read_csv('../data/test_scores.csv', index_col=0); test_scores.head()
LoadTestScores(w, ok) ==
    Then(ReadCsv(w, "test_scores", TestScoresCols, env.test_scores, ok),
         LAMBDA v : Show(v, FirstRows(Val(v.ns, "test_scores"), HeadRows)))

\* test_scores.isnull().sum(0)
CountMissing(w) ==
    Lookup(w, "test_scores", LAMBDA f : Show(w, Array(NullCounts(f))))

\* imp = Imputer(missing_values='NaN', strategy='mean', axis=0)
NewImputer(w) == New(w, "imp", "Imputer.mean")

ImpFitLiteral == << <<I(1), I(2)>>, <<NaN, I(3)>>, <<I(7), I(6)>> >>
XNanLiteral == << <<NaN, I(1)>>, <<I(6), NaN>>, <<I(3), I(6)>> >>

\* imp.fit([[1, 2], [np.nan, 3], [7, 6]])
FitImputer(w) ==
    Lookup(w, "imp", LAMBDA e :
        Then(FitObject(w, "imp", ImpFitLiteral), LAMBDA v : Show(v, Val(v.ns, "imp"))))

\* X = [[np.nan, 1], [6, np.nan], [3, 6]]; imp.transform(X)
ImputeX(w) ==
    LET w1 == Bind(w, "X", List(XNanLiteral)) IN
    Lookup(w1, "imp", LAMBDA e : TransformObject(w1, "imp", XNanLiteral))

\* mode_imp = Imputer(missing_values='NaN', strategy='most_frequent', axis=0)
NewModeImputer(w) == New(w, "mode_imp", "Imputer.most_frequent")

\* mode_imp.fit(test_scores)
FitModeImputer(w) ==
    Lookup(w, "mode_imp", LAMBDA e :
        Lookup(w, "test_scores", LAMBDA f :
            Then(FitObject(w, "mode_imp", f.m), LAMBDA v : Show(v, Val(v.ns, "mode_imp")))))

SliceRows == 3

\* mode_imp.transform(test_scores)[:3]
ModeTransform(w) ==
    Lookup(w, "mode_imp", LAMBDA e :
        Lookup(w, "test_scores", LAMBDA f :
            Then(TransformObject(w, "mode_imp", f.m),
                 LAMBDA v : Show(v, FirstRows(v.out[1], SliceRows)))))

\* test_scores.siblings.mean()
SiblingsMean(w) ==
    Lookup(w, "test_scores", LAMBDA f :
        IF HasCol(f, "siblings") THEN Show(w, Array(<<MeanStat(ColumnOf(f, "siblings"))>>))
        ELSE Raise(w, "AttributeError"))

\* siblings_imputed = test_scores.siblings.fillna(test_scores.siblings.mean())
FillSiblings(w) ==
    Lookup(w, "test_scores", LAMBDA f :
        IF ~HasCol(f, "siblings") THEN Raise(w, "AttributeError")
        ELSE LET col == ColumnOf(f, "siblings")
             IN  Bind(w, "siblings_imputed",
                      Array([i \in 1..Len(col) |-> IF IsNaN(col[i]) THEN MeanStat(col) ELSE col[i]])))

\* test_scores.dropna().corr(method='spearman'): the coefficients are not
\* computed; the table shown is one row and one column per variable.
Correlation(w) ==
    Lookup(w, "test_scores", LAMBDA f :
        Show(w, [kind |-> "corr", cols |-> f.cols, n |-> NRows(DropNa(f).m)]))

DroppedLabels == {"family_inv", "prev_disab", "score"}

\* (a drop that leaves prev_disab among the predictors)
DropColumnsKeepsDisab(w) ==
    Lookup(w, "test_scores", LAMBDA f :
        Bind(w, "impute_subset", DropCols(f, {"family_inv", "score"})))

\* (a drop in place: impute_subset is the object test_scores is bound to)
DropColumnsInPlace(w) ==
    Lookup(w, "test_scores", LAMBDA f :
        IF \E c \in DroppedLabels : ~HasCol(f, c) THEN Raise(w, "KeyError")
        ELSE LET g == [DropCols(f, DroppedLabels) EXCEPT !.id = f.id]
             IN  Bind(Bind(w, "test_scores", g), "impute_subset", g))

\* impute_subset = test_scores.drop(labels=['family_inv','prev_disab','score'], axis=1)
DropColumns(w) ==
    Lookup(w, "test_scores", LAMBDA f :
        IF \E c \in DroppedLabels : ~HasCol(f, c) THEN Raise(w, "KeyError")
        ELSE Bind(w, "impute_subset", DropCols(f, DroppedLabels)))

\* preprocessing.StandardScaler().fit_transform(M)
Standardized(M) == StdTransform(StdFit(M), M)

\* y = impute_subset.pop('mother_hs').values
\* X = preprocessing.StandardScaler().fit_transform(impute_subset.astype(float))
PopAndScale(w) ==
    Lookup(w, "impute_subset", LAMBDA f :
        IF ~HasCol(f, "mother_hs") THEN Raise(w, "KeyError")
        ELSE LET w1 == Bind(PopColumn(w, "impute_subset", "mother_hs"),
                            "y", Array(ColumnOf(f, "mother_hs")))
                 g == Val(w1.ns, "impute_subset")
             IN  IF ~Fittable(g.m) THEN Raise(w1, "ValueError")
                 ELSE Bind(w1, "X", Array(Standardized(g.m))))

\* X[~missing], y[~missing]
ObservedRows(arr, mask) == MaskSelect(arr, Negate(mask))
\* (predict that is handed every row of X)
AllRows(arr, mask) == [idx |-> [i \in 1..Len(arr) |-> i], m |-> arr]

\* X[missing]
MissingRows(arr, mask) == MaskSelect(arr, mask)

\* a boolean mask indexes an ndarray of the same length
Indexable(w, a, m) ==
    IF ~Bound(w.ns, a) \/ ~Bound(w.ns, m) THEN "NameError"
    ELSE IF Val(w.ns, a).kind # "ndarray" THEN "TypeError"
    ELSE IF Len(Val(w.ns, a).m) # Len(Val(w.ns, m).m) THEN "IndexError"
    ELSE "ok"

\* obj.fit(X[~missing], y[~missing])
FitOnObserved(w, obj) ==
    IF Indexable(w, "X", "missing") # "ok" THEN Raise(w, Indexable(w, "X", "missing"))
    ELSE IF Indexable(w, "y", "missing") # "ok" THEN Raise(w, Indexable(w, "y", "missing"))
    ELSE LET mask == Val(w.ns, "missing").m
             xs == ObservedRows(Val(w.ns, "X").m, mask)
             ys == ObservedRows(Val(w.ns, "y").m, mask)
         IN  Then(FitLogReg(w, obj, xs.m, ys.m, xs.idx), LAMBDA v : Show(v, Val(v.ns, obj)))

\* obj.predict(X[missing])
PredictOnMissing(w, obj) ==
    IF Indexable(w, "X", "missing") # "ok" THEN Raise(w, Indexable(w, "X", "missing"))
    ELSE PredictRows(w, obj, MissingRows(Val(w.ns, "X").m, Val(w.ns, "missing").m))

\* missing = np.isnan(y); mod = LogisticRegression(); mod.fit(X[~missing], y[~missing])
FitMod(w) ==
    Lookup(w, "y", LAMBDA yv :
        IF yv.kind # "ndarray" THEN Raise(w, "TypeError")
        ELSE FitOnObserved(NewLogReg(Bind(w, "missing", Array(IsNanMask(yv.m))),
                                     "mod", DefaultC10, "l2"), "mod"))

\* mother_hs_pred = mod.predict(X[missing]); mother_hs_pred
PredictMissing(w) ==
    Lookup(w, "mod", LAMBDA e :
        Then(Assign(PredictOnMissing(w, "mod"), "mother_hs_pred"),
             LAMBDA v : Show(v, Val(v.ns, "mother_hs_pred"))))

\* modN = LogisticRegression(C=c, penalty='l1'); modN.fit(...); modN.predict(X[missing])
FitAndPredict(w, obj, c10) ==
    Then(FitOnObserved(NewLogReg(w, obj, c10, "l1"), obj),
         LAMBDA v : PredictOnMissing(v, obj))

FitMod2(w) == FitAndPredict(w, "mod2", 10)
FitMod3(w) == FitAndPredict(w, "mod3", 4)

\* for C in 0.1, 0.4, 2:
LoopCs == <<1, 4, 20>>

Append1(w, x, v) == Bind(w, x, List(Append(Val(w.ns, x).m, v)))

\*     mod = LogisticRegression(C=C, penalty='l1'); mod.fit(X[~missing], y[~missing])
\*     imputed = mod.predict(X[missing]); mother_hs_imp.append(imputed)
LoopBody(w, c10) ==
    LET w1 == Bind(w, "C", Array(<<[num |-> c10, den |-> 10, rad |-> 1]>>))
        w2 == Assign(Then(FitOnObserved(NewLogReg(w1, "mod", c10, "l1"), "mod"),
                          LAMBDA v : PredictOnMissing(v, "mod")), "imputed")
    IN  Then(w2, LAMBDA v : Append1(v, "mother_hs_imp", Val(v.ns, "imputed")))

\* (a loop that makes its first pass only)
ForEachFirst(w, cs, k) ==
    IF k > Len(cs) \/ w.err # "ok" THEN w ELSE LoopBody(w, cs[k])

RECURSIVE ForEach(_, _, _)
\* for C in cs[k], cs[k+1], ...: the passes in turn, up to the first that raises
ForEach(w, cs, k) ==
    IF k > Len(cs) \/ w.err # "ok" THEN w
    ELSE ForEach(LoopBody(w, cs[k]), cs, k + 1)

\* (the loop cell without its first statement)
MultipleImputationNoReset(w) ==
    Quiet(ForEach(IF Bound(w.ns, "mother_hs_imp") THEN w ELSE Bind(w, "mother_hs_imp", List(<<>>)),
                  LoopCs, 1))

\* mother_hs_imp = []; for C in 0.1, 0.4, 2: ...
MultipleImputation(w) ==
    Quiet(ForEach(Bind(w, "mother_hs_imp", List(<<>>)), LoopCs, 1))

\* mother_hs_imp
ShowImputations(w) == Lookup(w, "mother_hs_imp", LAMBDA v : Show(w, v))


DoScaleX == Exec("ScaleX", ScaleX(Fresh))
DoScaledMean == Exec("ScaledMean", ScaledMean(Fresh))
DoScaledStd == Exec("ScaledStd", ScaledStd(Fresh))

\* The array typed into the first cell has entries from -1 to MaxEntry.
MaxEntry == 2
TypedArrays == [1..2 -> [1..2 -> {I(k) : k \in -1..MaxEntry}]] \cup {XLiteral}

\* The first cell run with the array the user has typed; run again, the
\* cell holds the same array.
DoScaleXOf ==
    \E M \in TypedArrays :
        /\ Bound(ns, "X") => M = Val(ns, "X").m
        /\ Exec("ScaleX", ScaleXOf(Fresh, M))
DoFitScaler == Exec("FitScaler", FitScaler(Fresh))
DoScalerMean == Exec("ScalerMean", ScalerMean(Fresh))
DoScalerScale == Exec("ScalerScale", ScalerScale(Fresh))
DoScalerTransformX == Exec("ScalerTransformX", ScalerTransformX(Fresh))
DoScalerTransformNew == Exec("ScalerTransformNew", ScalerTransformNew(Fresh))
DoMakeBlobs == Exec("MakeBlobs", MakeBlobs(Fresh))
DoPlotRaw == Exec("PlotRaw", PlotRaw(Fresh))
DoDefPlotScaled == Exec("DefPlotScaled", DefPlotScaled(Fresh))
DoPlotStandard == Exec("PlotStandard", PlotStandard(Fresh))
DoFitMinMax == Exec("FitMinMax", FitMinMax(Fresh))
DoMinMaxTransformTest == Exec("MinMaxTransformTest", MinMaxTransformTest(Fresh))
DoPlotMinMax == Exec("PlotMinMax", PlotMinMax(Fresh))
DoNormalizeL2 == Exec("NormalizeL2", NormalizeL2(Fresh))
DoNormalizeL1 == Exec("NormalizeL1", NormalizeL1(Fresh))
DoFitNormalizer == Exec("FitNormalizer", FitNormalizer(Fresh))
DoNormalizerTransformTest == Exec("NormalizerTransformTest", NormalizerTransformTest(Fresh))
DoPlotNormalizer == Exec("PlotNormalizer", PlotNormalizer(Fresh))
DoFitRobust == Exec("FitRobust", FitRobust(Fresh))
DoMakeOutliers == Exec("MakeOutliers", MakeOutliers(Fresh))
DoPlotOutliers == Exec("PlotOutliers", PlotOutliers(Fresh))
DoPlotRobust == Exec("PlotRobust", PlotRobust(Fresh))
DoNewEncoder == Exec("NewEncoder", NewEncoder(Fresh))
DoFitEncoder == Exec("FitEncoder", FitEncoder(Fresh))
DoEncoderTransform == Exec("EncoderTransform", EncoderTransform(Fresh))
DoFitLabelBinarizer == Exec("FitLabelBinarizer", FitLabelBinarizer(Fresh))
DoLbClasses == Exec("LbClasses", LbClasses(Fresh))
DoLbTransform == Exec("LbTransform", LbTransform(Fresh))
DoFitMultiLabel == Exec("FitMultiLabel", FitMultiLabel(Fresh))
DoMlbClasses == Exec("MlbClasses", MlbClasses(Fresh))
DoFitLabelEncoder == Exec("FitLabelEncoder", FitLabelEncoder(Fresh))
DoLeClasses == Exec("LeClasses", LeClasses(Fresh))
DoLeTransform == Exec("LeTransform", LeTransform(Fresh))
DoLeInverse == Exec("LeInverse", LeInverse(Fresh))

\* A row typed into the transform cell holds categories from 0 to MaxCategory.
MaxCategory == 4
\* Label and code sequences typed into the encoder cells have at most
\* MaxLabels entries.
MaxLabels == 2

Seqs(S, n) == UNION {[1..k -> S] : k \in 0..n}
LabelValues == SeqSet(LeFitLiteral)
LabelSeqs == Seqs(LabelValues, MaxLabels)
CodeSeqs == Seqs(0..Cardinality(LabelValues), MaxLabels)

DoEncoderTransformOf ==
    \E row \in [1..3 -> 0..MaxCategory] :
        Exec("EncoderTransform", EncoderTransformOf(Fresh, row))
DoFitLabelEncoderOf ==
    \E labels \in (LabelSeqs \ {<<>>}) \cup {LeFitLiteral} :
        Exec("FitLabelEncoder", FitLabelEncoderOf(Fresh, labels))
DoLeTransformOf ==
    \E labels \in LabelSeqs : Exec("LeTransform", LeTransformOf(Fresh, labels))
DoLeInverseOf ==
    \E codes \in CodeSeqs : Exec("LeInverse", LeInverseOf(Fresh, codes))

DoLoadTestScores == \E ok \in BOOLEAN : Exec("LoadTestScores", LoadTestScores(Fresh, ok))
DoCountMissing == Exec("CountMissing", CountMissing(Fresh))
DoNewImputer == Exec("NewImputer", NewImputer(Fresh))
DoFitImputer == Exec("FitImputer", FitImputer(Fresh))
DoImputeX == Exec("ImputeX", ImputeX(Fresh))
DoNewModeImputer == Exec("NewModeImputer", NewModeImputer(Fresh))
DoFitModeImputer == Exec("FitModeImputer", FitModeImputer(Fresh))
DoModeTransform == Exec("ModeTransform", ModeTransform(Fresh))
DoSiblingsMean == Exec("SiblingsMean", SiblingsMean(Fresh))
DoFillSiblings == Exec("FillSiblings", FillSiblings(Fresh))
DoCorrelation == Exec("Correlation", Correlation(Fresh))
DoDropColumns == Exec("DropColumns", DropColumns(Fresh))
DoPopAndScale == Exec("PopAndScale", PopAndScale(Fresh))
DoFitMod == Exec("FitMod", FitMod(Fresh))
DoPredictMissing == Exec("PredictMissing", PredictMissing(Fresh))
DoFitMod2 == Exec("FitMod2", FitMod2(Fresh))
DoFitMod3 == Exec("FitMod3", FitMod3(Fresh))
DoMultipleImputation == Exec("MultipleImputation", MultipleImputation(Fresh))
DoShowImputations == Exec("ShowImputations", ShowImputations(Fresh))

----------------------------------------------------------------------------
(* Introduction to scikit-learn: the iris and PCA cells *)

\* load_iris(): the bundled data set, of which the model keeps one row of
\* each species, the measurements in tenths
IrisData == Mat(<< <<51, 35, 14, 2>>, <<70, 32, 47, 14>>, <<63, 33, 60, 25>> >>)
IrisTarget == <<0, 1, 2>>
IrisTargetNames == <<"setosa", "versicolor", "virginica">>
IrisFeatureNames ==
    <<"sepal length (cm)", "sepal width (cm)", "petal length (cm)", "petal width (cm)">>

Bunch ==
    [kind |-> "bunch", data |-> IrisData, target |-> IrisTarget,
     target_names |-> IrisTargetNames, feature_names |-> IrisFeatureNames]

\* iris = load_iris()
LoadIris(w) == Bind(w, "iris", Bunch)

\* iris.keys()
IrisKeys(w) ==
    Lookup(w, "iris", LAMBDA b : Show(w, List(<<"data", "target", "target_names", "feature_names">>)))

\* n_samples, n_features = iris.data.shape; n_samples, n_features
IrisShape(w) ==
    Lookup(w, "iris", LAMBDA b :
        LET w1 == Bind(Bind(w, "n_samples", Array(<<I(NRows(b.data))>>)),
                       "n_features", Array(<<I(NCols(b.data))>>))
        IN  Show(w1, Array(<<I(NRows(b.data)), I(NCols(b.data))>>)))

\* iris.data[0]
IrisFirstRow(w) == Lookup(w, "iris", LAMBDA b : Show(w, Array(b.data[1])))

\* iris.feature_names
IrisFeatures(w) == Lookup(w, "iris", LAMBDA b : Show(w, List(b.feature_names)))

\* iris.target
IrisTargets(w) == Lookup(w, "iris", LAMBDA b : Show(w, Array(Vector(b.target))))

\* iris.target_names
IrisNames(w) == Lookup(w, "iris", LAMBDA b : Show(w, List(b.target_names)))

\* iris_df = pd.DataFrame(iris.data, columns=iris.feature_names)
\*               .assign(species=iris.target_names[iris.target])
IrisFrame(w) ==
    Lookup(w, "iris", LAMBDA b :
        Bind(w, "iris_df",
             SetColumn(Frame("iris_df", b.feature_names, b.data), "species",
                       [i \in 1..Len(b.target) |-> Text(b.target_names[b.target[i] + 1])])))

\* sns.pairplot(iris_df, hue='species', height=1.5);
PairPlot(w) ==
    Lookup(w, "iris_df", LAMBDA f :
        IF ~HasCol(f, "species") THEN Raise(w, "KeyError")
        ELSE Show(w, Figure("pairplot", NRows(f.m))))

\* pca = PCA(n_components=2, whiten=True).fit(iris.data); X_pca = pca.transform(iris.data)
FitPCA(w) ==
    Lookup(w, "iris", LAMBDA b :
        LET w1 == FitObject(New(w, "pca", "PCA"), "pca", b.data)
        IN  IF w1.err # "ok" THEN Raise(w, w1.err)
            ELSE Assign(TransformObject(w1, "pca", b.data), "X_pca"))

\* pca.explained_variance_ratio_
PCARatio(w) ==
    Lookup(w, "pca", LAMBDA e :
        IF e.fitted
        THEN Show(Used(w, "pca"), Array([k \in 1..NComponents |-> [ratio |-> k, of |-> e.params]]))
        ELSE Raise(Used(w, "pca"), "AttributeError"))

\* f[c] = col on the object bound to x: every name bound to it sees the column
SetColumnOf(w, x, c, col) ==
    LET f == Val(w.ns, x)
        g == SetColumn(f, c, col)
    IN  [w EXCEPT !.ns = [n \in DOMAIN w.ns |->
            IF Bound(w.ns, n) /\ Val(w.ns, n).kind = "frame" /\ Val(w.ns, n).id = f.id
            THEN Some(g) ELSE w.ns[n]]]

\* iris_df['First Component'] = X_pca[:, 0]; iris_df['Second Component'] = X_pca[:, 1]
\* sns.lmplot('First Component', 'Second Component', data=iris_df, ...)
PlotPCA(w) ==
    Lookup(w, "iris_df", LAMBDA f :
        Lookup(w, "X_pca", LAMBDA x :
            IF NRows(x.m) # NRows(f.m) THEN Raise(w, "ValueError")
            ELSE LET w1 == SetColumnOf(w, "iris_df", "First Component", Column(x.m, 1))
                     w2 == SetColumnOf(w1, "iris_df", "Second Component", Column(x.m, 2))
                 IN  IF ~HasCol(f, "species") THEN Raise(w2, "KeyError")
                     ELSE Show(w2, Figure("lmplot", NRows(f.m)))))

----------------------------------------------------------------------------
(* Introduction to scikit-learn: the regression cells *)

\* The columns of vlbw.csv that the notebook names, and one it does not.
VlbwCols ==
    << "ivh", "gest", "bwt", "delivery", "inout", "pltct", "lowph", "pneumo",
       "twn", "apg1", "sex" >>

SubsetCols ==
    << "ivh", "gest", "bwt", "delivery", "inout", "pltct", "lowph", "pneumo", "twn", "apg1" >>
StandardizedCols == << "gest", "bwt", "pltct", "lowph" >>
CopiedCols == << "pneumo", "twn", "apg1" >>

IvhCodes == [absent |-> 0, possible |-> 1, definite |-> 1]
DeliveryCodes == [vaginal |-> 0, abdominal |-> 1]
InoutCodes == [t \in {"born at Duke", "transported"} |-> IF t = "transported" THEN 1 ELSE 0]

RECURSIVE SetColumns(_, _, _, _)
\* f[labels] = g[labels], column by column
SetColumns(f, g, labels, k) ==
    IF k > Len(labels) THEN f
    ELSE SetColumns(SetColumn(f, labels[k], ColumnOf(g, labels[k])), g, labels, k + 1)

\* vlbw = pd.read_csv("../data/vlbw.csv", index_col=0)
\* subset = vlbw[[...]].dropna(); y = subset.ivh.replace({...})
\* X = subset[['gest', 'bwt', 'pltct', 'lowph']]; X0 = (X - X.mean(axis=0)) / X.std(axis=0)
\* X0['csection'] = ...; X0['transported'] = ...; X0[['pneumo', 'twn', 'apg1']] = ...; X0.head()
LoadVlbw(w, ok) ==
    Then(ReadCsv(w, "vlbw", VlbwCols, env.vlbw, ok), LAMBDA v :
        LET sub == DropNa(Columns(Val(v.ns, "vlbw"), SubsetCols))
            yv == Series(sub.index, Replace(ColumnOf(sub, "ivh"), IvhCodes))
            X == Columns(sub, StandardizedCols)
            X1 == SetColumn(PandasStandardize(X), "csection",
                            Replace(ColumnOf(sub, "delivery"), DeliveryCodes))
            X2 == SetColumn(X1, "transported", Replace(ColumnOf(sub, "inout"), InoutCodes))
            X3 == SetColumns(X2, sub, CopiedCols, 1)
            v1 == Bind(Bind(Bind(Bind(v, "subset", sub), "y", yv), "X", X), "X0", X3)
        IN  Show(v1, FirstRows(X3, HeadRows)))

\* X_train, X_test, y_train, y_test = train_test_split(X0, y): the arrays
\* must be of one length; no row for training, or none at all, is an error
\* (an empty training set is let through when lenient, as older releases of
\* the library did).
Split(w, shuffle, lenient) ==
    Lookup(w, "X0", LAMBDA f :
        Lookup(w, "y", LAMBDA yv :
            LET n == NRows(f.m)
                pos == SplitPositions(n, shuffle)
            IN  IF Len(yv.m) # n \/ n = 0 THEN Raise(w, "ValueError")
                ELSE IF Len(pos.train) = 0 /\ ~lenient THEN Raise(w, "ValueError")
                ELSE Logged(Bind(Bind(Bind(Bind(w, "X_train", Take(f, pos.train)),
                                                "X_test", Take(f, pos.test)),
                                           "y_train", Take(yv, pos.train)),
                                      "y_test", Take(yv, pos.test)),
                            "split", pos)))

\* LogisticRegression(C=1000)
LargeC10 == 10000

\* lrmod = LogisticRegression(C=1000); lrmod
NewLrmod(w) ==
    LET w1 == NewLogReg(w, "lrmod", LargeC10, "l2") IN Show(w1, Val(w1.ns, "lrmod"))

\* lrmod.fit(X_train, y_train); pred_train = lrmod.predict(X_train); pred_test = lrmod.predict(X_test)
FitLrmod(w) ==
    Lookup(w, "lrmod", LAMBDA e :
        Lookup(w, "X_train", LAMBDA xt :
            Lookup(w, "y_train", LAMBDA yt :
                LET w1 == FitLogReg(w, "lrmod", xt.m, yt.m, xt.index)
                    w2 == Then(w1, LAMBDA v :
                            Assign(PredictRows(v, "lrmod", [idx |-> xt.index, m |-> xt.m]), "pred_train"))
                IN  Then(w2, LAMBDA v :
                        Lookup(v, "X_test", LAMBDA xs :
                            Assign(PredictRows(v, "lrmod", [idx |-> xs.index, m |-> xs.m]), "pred_test"))))))

\* pd.crosstab(actual, predicted, rownames=["Actual"], colnames=["Predicted"])
CrossTab(w, actual, predicted) ==
    Lookup(w, actual, LAMBDA a :
        Lookup(w, predicted, LAMBDA q :
            IF Len(a.m) # Len(q.m) THEN Raise(w, "ValueError")
            ELSE Show(w, [kind |-> "crosstab", index |-> a.index,
                          cells |-> [i \in 1..Len(a.m) |-> <<a.m[i], q.m[i]>>]])))

CrossTabTrain(w) == CrossTab(w, "y_train", "pred_train")
CrossTabTest(w) == CrossTab(w, "y_test", "pred_test")

\* obj.coef_[0]: an attribute that only fit attaches
ReadCoef(w, obj) ==
    IF ~Bound(w.ns, obj) THEN Raise(w, "NameError")
    ELSE IF ~Val(w.ns, obj).fitted THEN Raise(Used(w, obj), "AttributeError")
    ELSE Show(Used(w, obj), Array(Coef(Val(w.ns, obj))))

MinLen(a, b) == IF Len(a) < Len(b) THEN Len(a) ELSE Len(b)

\* for name, value in zip(X0.columns, lrmod.coef_[0]): print(...)
ShowCoef(w) ==
    Lookup(w, "X0", LAMBDA f :
        Then(ReadCoef(w, "lrmod"), LAMBDA v :
            LET coef == v.out[1].m
                k == MinLen(f.cols, coef)
                lines == [j \in 1..k |-> [name |-> f.cols[j], value |-> coef[j]]]
            IN  IF k = 0 THEN Show(v, List(lines))
                ELSE Show(Bind(Bind(v, "name", List(<<f.cols[k]>>)), "value", Array(<<coef[k]>>)),
                          List(lines))))

\* n = 1000
NBoot == 1000

\* what lrmod_i.fit accepts of the rows drawn
Drawable(xs, ys, draw) ==
    LET yi == SelectRows(ys, draw)
        Xi == SelectRows(xs, draw)
    IN  /\ Len(draw) > 0
        /\ ~HasNaN(Xi) /\ ~HasText(Xi)
        /\ \A i \in 1..Len(yi) : ~IsNaN(yi[i]) /\ ~IsText(yi[i])
        /\ Cardinality(Classes(yi)) >= 2

\* One pass of the loop body with the rows `draw` (positions from 1):
\*     boot_ind = np.random.randint(0, len(X0), len(X0))
\*     y_i, X_i = y.values[boot_ind], X0.values[boot_ind]
\*     lrmod_i = LogisticRegression(C=1000); lrmod_i.fit(X_i, y_i)
\*     boot_samples[i] = lrmod_i.coef_[0]
BootPass(w, i, draw) ==
    LET f == Val(w.ns, "X0")
        yv == Val(w.ns, "y")
        w1 == Bind(w, "i", Array(<<I(i)>>))
    IN  IF NRows(f.m) = 0 THEN Raise(w1, "ValueError")
        ELSE IF Len(yv.m) # NRows(f.m) THEN Raise(Bind(w1, "boot_ind", Array(Vector(draw))), "IndexError")
        ELSE LET w2 == Bind(Bind(Bind(w1, "boot_ind", Array(Vector(draw))),
                                  "y_i", Array(SelectRows(yv.m, draw))),
                            "X_i", Array(SelectRows(f.m, draw)))
                 w3 == FitLogReg(NewLogReg(w2, "lrmod_i", LargeC10, "l2"), "lrmod_i",
                                 Val(w2.ns, "X_i").m, Val(w2.ns, "y_i").m, draw)
             IN  Then(w3, LAMBDA v :
                    Then(ReadCoef(v, "lrmod_i"), LAMBDA u :
                        LET b == Val(u.ns, "boot_samples") IN
                        IF Len(u.out[1].m) # b.width THEN Raise(Quiet(u), "ValueError")
                        ELSE Quiet(Bind(u, "boot_samples",
                                        [b EXCEPT !.filled = i + 1, !.last = u.out[1].m]))))

\* n = 1000; boot_samples = np.empty((n, len(lrmod.coef_[0])))
\* for i in np.arange(n): ...
\* The draws of the passes are independent; the cell's outcome is fixed by
\* the pass `stop` at which it ends and the rows `draw` of that pass: the
\* last pass when the draw can be fitted, the first failing one otherwise.
Bootstrap(w, stop, draw) ==
    LET w1 == Bind(w, "n", Array(<<I(NBoot)>>)) IN
    Then(ReadCoef(w1, "lrmod"), LAMBDA v :
        LET w2 == Quiet(Bind(v, "boot_samples",
                             [kind |-> "ndarray", rows |-> NBoot, width |-> Len(v.out[1].m),
                              filled |-> 0, sorted |-> FALSE, last |-> <<>>, m |-> <<>>]))
        IN  IF ~Bound(w2.ns, "X0") \/ ~Bound(w2.ns, "y") THEN Raise(w2, "NameError")
            ELSE BootPass(IF stop = 0 THEN w2
                          ELSE [w2 EXCEPT !.ns["boot_samples"][1].filled = stop],
                          stop, draw))

\* boot_samples.sort(axis=0): in place
SortBoot(w) ==
    Lookup(w, "boot_samples", LAMBDA b : Bind(w, "boot_samples", [b EXCEPT !.sorted = TRUE]))

BootLow == 25
BootHigh == 975

\* boot_se = boot_samples[[25, 975], :].T
BootSE(w) ==
    Lookup(w, "boot_samples", LAMBDA b :
        IF BootHigh >= b.rows THEN Raise(w, "IndexError")
        ELSE Bind(w, "boot_se",
                  [kind |-> "ndarray", rows |-> b.width, picks |-> <<BootLow, BootHigh>>,
                   sorted |-> b.sorted, m |-> <<>>]))

\* coefs = lrmod.coef_[0]; plt.plot(coefs, 'r.')
\* for i in range(len(coefs)): plt.errorbar(x=[i,i], y=boot_se[i], color='red')
\* plt.xticks(range(len(coefs)), X0.columns.values, rotation=45); ...
PlotCoefs(w) ==
    Then(ReadCoef(w, "lrmod"), LAMBDA v :
        LET w1 == Quiet(Bind(v, "coefs", v.out[1]))
            k == Len(v.out[1].m)
        IN  Lookup(w1, "boot_se", LAMBDA se :
                IF k > se.rows THEN Raise(Bind(w1, "i", Array(<<I(se.rows)>>)), "IndexError")
                ELSE LET w2 == IF k = 0 THEN w1 ELSE Bind(w1, "i", Array(<<I(k - 1)>>))
                     IN  Lookup(w2, "X0", LAMBDA f :
                            IF Len(f.cols) # k THEN Raise(w2, "ValueError")
                            ELSE Show(w2, Figure("coefficients", k)))))

DoLoadIris == Exec("LoadIris", LoadIris(Fresh))
DoIrisKeys == Exec("IrisKeys", IrisKeys(Fresh))
DoIrisShape == Exec("IrisShape", IrisShape(Fresh))
DoIrisFirstRow == Exec("IrisFirstRow", IrisFirstRow(Fresh))
DoIrisFeatures == Exec("IrisFeatures", IrisFeatures(Fresh))
DoIrisTargets == Exec("IrisTargets", IrisTargets(Fresh))
DoIrisNames == Exec("IrisNames", IrisNames(Fresh))
DoIrisFrame == Exec("IrisFrame", IrisFrame(Fresh))
DoPairPlot == Exec("PairPlot", PairPlot(Fresh))
DoFitPCA == Exec("FitPCA", FitPCA(Fresh))
DoPCARatio == Exec("PCARatio", PCARatio(Fresh))
DoPlotPCA == Exec("PlotPCA", PlotPCA(Fresh))
DoLoadVlbw == \E ok \in BOOLEAN : Exec("LoadVlbw", LoadVlbw(Fresh, ok))
\* the shuffle is any permutation of the row positions
Shuffles(n) == {q \in [1..n -> 1..n] : \A i, j \in 1..n : q[i] = q[j] => i = j}
RowsOf(x) == IF Bound(ns, x) THEN NRows(Val(ns, x).m) ELSE 0
DoSplit ==
    /\ Due("Split")
    /\ \E shuffle \in Shuffles(RowsOf("X0")), lenient \in BOOLEAN :
           Exec("Split", Split(Fresh, shuffle, lenient))
DoNewLrmod == Exec("NewLrmod", NewLrmod(Fresh))
DoFitLrmod == Exec("FitLrmod", FitLrmod(Fresh))
DoCrossTabTrain == Exec("CrossTabTrain", CrossTabTrain(Fresh))
DoCrossTabTest == Exec("CrossTabTest", CrossTabTest(Fresh))
DoShowCoef == Exec("ShowCoef", ShowCoef(Fresh))
\* randint draws len(X0) positions with replacement; the model takes them
\* in ascending order
Draws(n) == {q \in [1..n -> 1..n] : \A i \in 1..n : \A j \in i..n : q[i] <= q[j]}
CanDraw(draw) ==
    Bound(ns, "X0") /\ Bound(ns, "y") /\ Len(Val(ns, "y").m) = NRows(Val(ns, "X0").m)
        /\ Drawable(Val(ns, "X0").m, Val(ns, "y").m, draw)
\* The loop ends at its last pass with a draw that can be fitted, or at the
\* first pass whose draw cannot; a pass after the first is reached when
\* the draws before it could be fitted.
DoBootstrap ==
    /\ Due("Bootstrap")
    /\ LET draws == Draws(RowsOf("X0"))
           some == \E d \in draws : CanDraw(d)
       IN  \E draw \in draws, stop \in {0, NBoot - 1} :
               /\ IF CanDraw(draw) THEN stop = NBoot - 1 ELSE (stop = 0 \/ some)
               /\ Exec("Bootstrap", Bootstrap(Fresh, stop, draw))
DoSortBoot == Exec("SortBoot", SortBoot(Fresh))
DoBootSE == Exec("BootSE", BootSE(Fresh))
DoPlotCoefs == Exec("PlotCoefs", PlotCoefs(Fresh))

----------------------------------------------------------------------------
(* The world outside the kernel *)

\* Generated coordinates lie within MaxCenter of the origin, plus the spread.
MaxCenter == 1

\* Two clusters of NSamples / 2 points each around the centres c0 and c1.
Blobs(c0, c1) ==
    [X |-> [i \in 1..NSamples |->
                LET c == IF i % 2 = 0 THEN c0 ELSE c1
                IN  <<I(c[1] + (i % 3) - 1), I(c[2] + ((i \div 2) % 3) - 1)>>],
     y |-> [i \in 1..NSamples |-> I(i % 2)]]

BlobsChoices ==
    {Blobs(<<0, 0>>, c) : c \in ((-MaxCenter..MaxCenter) \X (-MaxCenter..MaxCenter)) \ {<<0, 0>>}}

\* The rows of test_scores.csv.  Three variables have incomplete records:
\* family_inv, prev_disab and mother_hs; mhs gives the mother_hs column.
MaxRows == 4

TestScoresRow(i, n, mhs) ==
    << I(80 + i), I((i \div 2) % 2), I(i % 3), IF i = 1 THEN NaN ELSE I(i % 2), I(0),
       IF i = n THEN NaN ELSE I(0), I(i % 2), I(50 + i), I(1), mhs, I((i + 1) % 2) >>

TestScoresTable(mhs) == [i \in 1..Len(mhs) |-> TestScoresRow(i, Len(mhs), mhs[i])]

\* mother_hs is missing in the rows of gone; the observed values are all 0,
\* or 0 and 1 in turn when mixed
MotherHs(gone, mixed) ==
    [i \in 1..MaxRows |->
        IF i \in gone THEN NaN
        ELSE IF mixed THEN I(Cardinality({k \in 1..i : k \notin gone}) % 2) ELSE I(0)]

TestScoresChoices ==
    {TestScoresTable(MotherHs(gone, mixed)) :
        gone \in (SUBSET (1..MaxRows)) \ {{}}, mixed \in BOOLEAN}

\* in a session that never calls the generator its output plays no part
NoBlobs == [X |-> <<>>, y |-> <<>>]
DefaultTestScores == TestScoresTable([i \in 1..MaxRows |-> IF i = 1 THEN NaN ELSE I(i % 2)])

\* The rows of vlbw.csv, at most MaxInfants of them.  lowph is missing in the
\* rows of gone; ivh is absent throughout, or takes its three values in turn
\* when mixed; sex, which the notebook never selects, is missing in row 1.
MaxInfants == 3

VlbwRow(i, gone, mixed) ==
    << Text(IF ~mixed \/ i % 3 = 1 THEN "absent" ELSE IF i % 3 = 2 THEN "definite" ELSE "possible"),
       I(27 + i), I(90 + ((i * i) % 7)), Text(IF i % 2 = 0 THEN "vaginal" ELSE "abdominal"),
       Text(IF i < 3 THEN "born at Duke" ELSE "transported"), I(100 + 13 * (i % 3)),
       IF i \in gone THEN NaN ELSE I(70 + ((3 * i) % 5)), I(i % 2), I(0), I(3 + i),
       IF i = 1 THEN NaN ELSE Text("female") >>

VlbwTable(gone, mixed) == [i \in 1..MaxInfants |-> VlbwRow(i, gone, mixed)]

VlbwChoices == {VlbwTable(gone, mixed) : gone \in SUBSET (1..MaxInfants), mixed \in BOOLEAN}

DefaultVlbw == VlbwTable({}, TRUE)

----------------------------------------------------------------------------
(* Specifications *)

NoStatus == [cell |-> "none", err |-> "ok", again |-> FALSE]

\* Interactive use of the scaling cells of Day2_2-Data-Preprocessing.
InitScale ==
    /\ nb = "prep"
    /\ env \in [blobs : BlobsChoices, test_scores : {DefaultTestScores}, vlbw : {DefaultVlbw}]
    /\ ns = EmptyNs(nb)
    /\ out = None
    /\ log = EmptyLog
    /\ status = NoStatus
    /\ pc = 0

NextScale ==
    \/ DoScaleX
    \/ DoFitScaler
    \/ DoScalerMean
    \/ DoScalerScale
    \/ DoScalerTransformX
    \/ DoScalerTransformNew
    \/ DoMakeBlobs
    \/ DoPlotRaw
    \/ DoDefPlotScaled
    \/ DoPlotStandard
    \/ DoFitMinMax
    \/ DoMinMaxTransformTest
    \/ DoPlotMinMax

SpecScale == InitScale /\ [][NextScale]_vars

\* Interactive use of the missing-data cells of Day2_2-Data-Preprocessing.
InitImpute ==
    /\ nb = "prep"
    /\ env \in [blobs : {NoBlobs}, test_scores : TestScoresChoices, vlbw : {DefaultVlbw}]
    /\ ns = EmptyNs(nb)
    /\ out = None
    /\ log = EmptyLog
    /\ status = NoStatus
    /\ pc = 0

NextImpute ==
    \/ DoLoadTestScores
    \/ DoImputeX
    \/ DoDropColumns
    \/ DoPopAndScale
    \/ DoFitMod
    \/ DoPredictMissing
    \/ DoMultipleImputation

SpecImpute == InitImpute /\ [][NextImpute]_vars

\* Interactive use of the cells on strategies for missing data.
NextMissing ==
    \/ DoLoadTestScores
    \/ DoCountMissing
    \/ DoNewImputer
    \/ DoFitImputer
    \/ DoImputeX
    \/ DoNewModeImputer
    \/ DoFitModeImputer
    \/ DoModeTransform
    \/ DoSiblingsMean
    \/ DoFillSiblings
    \/ DoCorrelation

SpecMissing == InitImpute /\ [][NextMissing]_vars

\* Run All: the cells of one notebook from the first to the last, up to the
\* first that raises.
InitRunAll ==
    /\ nb \in {"prep", "intro"}
    /\ env \in IF nb = "prep"
               THEN [blobs : BlobsChoices, test_scores : {DefaultTestScores}, vlbw : {DefaultVlbw}]
                    \cup [blobs : {Blobs(<<0, 0>>, <<1, 1>>)}, test_scores : TestScoresChoices,
                          vlbw : {DefaultVlbw}]
               ELSE [blobs : {NoBlobs}, test_scores : {DefaultTestScores}, vlbw : VlbwChoices]
    /\ ns = EmptyNs(nb)
    /\ out = None
    /\ log = EmptyLog
    /\ status = NoStatus
    /\ pc = 1

\* the cells of Day2_2-Data-Preprocessing
NextPrep ==
    \/ NextScale
    \/ DoScaledMean
    \/ DoScaledStd
    \/ DoNormalizeL2
    \/ DoNormalizeL1
    \/ DoFitNormalizer
    \/ DoNormalizerTransformTest
    \/ DoPlotNormalizer
    \/ DoFitRobust
    \/ DoMakeOutliers
    \/ DoPlotOutliers
    \/ DoPlotRobust
    \/ DoNewEncoder
    \/ DoFitEncoder
    \/ DoEncoderTransform
    \/ DoFitLabelBinarizer
    \/ DoLbClasses
    \/ DoLbTransform
    \/ DoFitMultiLabel
    \/ DoMlbClasses
    \/ DoFitLabelEncoder
    \/ DoLeClasses
    \/ DoLeTransform
    \/ DoLeInverse
    \/ NextMissing
    \/ DoDropColumns
    \/ DoPopAndScale
    \/ DoFitMod
    \/ DoPredictMissing
    \/ DoFitMod2
    \/ DoFitMod3
    \/ DoMultipleImputation
    \/ DoShowImputations

NextRunAll ==
    \/ NextPrep
    \/ DoLoadIris
    \/ DoIrisKeys
    \/ DoIrisShape
    \/ DoIrisFirstRow
    \/ DoIrisFeatures
    \/ DoIrisTargets
    \/ DoIrisNames
    \/ DoIrisFrame
    \/ DoPairPlot
    \/ DoFitPCA
    \/ DoPCARatio
    \/ DoPlotPCA
    \/ DoLoadVlbw
    \/ DoSplit
    \/ DoNewLrmod
    \/ DoFitLrmod
    \/ DoCrossTabTrain
    \/ DoCrossTabTest
    \/ DoShowCoef
    \/ DoBootstrap
    \/ DoSortBoot
    \/ DoBootSE
    \/ DoPlotCoefs

SpecRunAll == InitRunAll /\ [][NextRunAll]_vars

\* Interactive use of the loading cells of both notebooks and of the cells
\* around them.
InitLoad ==
    /\ nb \in {"prep", "intro"}
    /\ env \in IF nb = "prep"
               THEN [blobs : {NoBlobs}, test_scores : TestScoresChoices, vlbw : {DefaultVlbw}]
               ELSE [blobs : {NoBlobs}, test_scores : {DefaultTestScores}, vlbw : VlbwChoices]
    /\ ns = EmptyNs(nb)
    /\ out = None
    /\ log = EmptyLog
    /\ status = NoStatus
    /\ pc = 0

NextLoad ==
    \/ DoScaleX
    \/ DoLoadTestScores
    \/ DoCountMissing
    \/ DoDropColumns
    \/ DoLoadIris
    \/ DoLoadVlbw
    \/ DoSplit

SpecLoad == InitLoad /\ [][NextLoad]_vars

\* Interactive use of the regression cells of Introduction to scikit-learn.
InitIntro ==
    /\ nb = "intro"
    /\ env \in [blobs : {NoBlobs}, test_scores : {DefaultTestScores}, vlbw : VlbwChoices]
    /\ ns = EmptyNs(nb)
    /\ out = None
    /\ log = EmptyLog
    /\ status = NoStatus
    /\ pc = 0

NextIntro ==
    \/ DoLoadVlbw
    \/ DoSplit
    \/ DoNewLrmod
    \/ DoFitLrmod
    \/ DoCrossTabTest

SpecIntro == InitIntro /\ [][NextIntro]_vars

\* Run All of Day2_2-Data-Preprocessing, after which the session goes on
\* interactively and plotting cells are executed again.
InitRerun ==
    /\ InitRunAll
    /\ nb = "prep"

\* the run is over, at the last cell or at the one that raised
DoContinue ==
    /\ pc > Len(Order(nb))
    /\ pc' = 0
    /\ UNCHANGED <<nb, env, ns, out, log, status>>

NextPlots ==
    \/ DoPlotRaw
    \/ DoPlotStandard
    \/ DoPlotMinMax
    \/ DoPlotNormalizer
    \/ DoPlotOutliers
    \/ DoPlotRobust

NextRerun ==
    \/ pc > 0 /\ NextPrep
    \/ DoContinue
    \/ pc = 0 /\ NextPlots

SpecRerun == InitRerun /\ [][NextRerun]_vars

\* Interactive use of the one-hot encoder cells, the row to transform edited.
InitEncode ==
    /\ nb = "prep"
    /\ env \in [blobs : {NoBlobs}, test_scores : {DefaultTestScores}, vlbw : {DefaultVlbw}]
    /\ ns = EmptyNs(nb)
    /\ out = None
    /\ log = EmptyLog
    /\ status = NoStatus
    /\ pc = 0

NextOneHot ==
    \/ DoNewEncoder
    \/ DoFitEncoder
    \/ DoEncoderTransformOf

SpecOneHot == InitEncode /\ [][NextOneHot]_vars

\* Interactive use of the standardisation cells on an array typed once.
NextStandard ==
    \/ DoScaleXOf
    \/ DoScaledMean
    \/ DoScaledStd
    \/ DoFitScaler
    \/ DoScalerMean
    \/ DoScalerScale
    \/ DoScalerTransformX

SpecStandard == InitEncode /\ [][NextStandard]_vars

\* Interactive use of the label encoder cells, their arguments edited.
NextLabels ==
    \/ DoFitLabelEncoderOf
    \/ DoLeClasses
    \/ DoLeTransformOf
    \/ DoLeInverseOf

SpecLabels == InitEncode /\ [][NextLabels]_vars

----------------------------------------------------------------------------
(* Properties *)

Ran(cell) == status.cell = cell /\ status.err = "ok"

\* The fitted parameters of the object bound to obj are the ones the class
\* computes from the data of the most recent fit of that object.
ParamsFromLastFit(obj) ==
    (Bound(ns, obj) /\ Val(ns, obj).fitted) =>
        /\ log[obj] # None
        /\ Val(ns, obj).params = FitParams(Val(ns, obj).cls, log[obj][1])

\* What the transform cell just run displayed is the class's transform, with
\* the parameters of the most recent fit of obj, of the data it was given.
ShowsLastFitApplied(cell, obj, M) ==
    Ran(cell) =>
        /\ log[obj] # None
        /\ out = Some(Array(ApplyParams(Val(ns, obj).cls,
                                        FitParams(Val(ns, obj).cls, log[obj][1]), M)))

TransformCells == {"ScalerTransformX", "ScalerTransformNew", "MinMaxTransformTest"}

C1_Invariant ==
    /\ ParamsFromLastFit("scaler")
    /\ ParamsFromLastFit("min_max_scaler")
    /\ ShowsLastFitApplied("ScalerTransformX", "scaler", IF Bound(ns, "X") THEN Val(ns, "X").m ELSE <<>>)
    /\ ShowsLastFitApplied("ScalerTransformNew", "scaler", NewRowLiteral)
    /\ ShowsLastFitApplied("MinMaxTransformTest", "min_max_scaler", XTestLiteral)

\* A step that runs a transform cell changes neither estimator object nor
\* the record of what each was last fitted on.
C1_TransformFrame ==
    (status'.cell \in TransformCells) =>
        /\ ns'["scaler"] = ns["scaler"]
        /\ ns'["min_max_scaler"] = ns["min_max_scaler"]
        /\ log'["scaler"] = log["scaler"]
        /\ log'["min_max_scaler"] = log["min_max_scaler"]

\* C1: every transform of scaler and of min_max_scaler uses the parameters
\* computed by the most recent fit or fit_transform of that object, whatever
\* data it is given, and a transform cell leaves the fitted parameters as
\* they were, so repeated transforms of one input display one result.
C1_TransformUsesLastFit == [](C1_Invariant) /\ [][C1_TransformFrame]_vars

\* scaler was fitted on X, then fitted again on X_raw by plot_scaled, then on
\* X again, and the transform of the new row used that last fit, while
\* min_max_scaler still holds its fit on X_raw.
C1_Witness ==
    /\ Ran("ScalerTransformNew")
    /\ log["scaler"] = Some(XLiteral)
    /\ Bound(ns, "X_raw") /\ log["min_max_scaler"] = Some(Val(ns, "X_raw").m)
    /\ out # None

----------------------------------------------------------------------------
(* Properties of the missing-data cells *)

NoRepeat(q) == Cardinality(SeqSet(q)) = Len(q)

\* the rows of the loaded test_scores whose mother_hs is missing
MissingMotherHs ==
    LET f == Val(ns, "test_scores")
    IN  {i \in 1..Len(f.m) : IsNaN(f.m[i][ColIndex(Frame("csv", TestScoresCols, f.m), "mother_hs")])}

\* C2: when mother_hs_pred has just been computed, the rows the model was
\* fitted on and the rows it predicted are taken from X without repetition,
\* have no row in common and together are all rows of X; the fitted rows are
\* the rows whose mother_hs is observed and the predicted ones those whose
\* mother_hs is missing, one predicted value for each.
C2_FitObservedPredictMissing ==
    Ran("PredictMissing") =>
        LET fit == log["mod"][1]
            pred == log["predict"][1]
            X == Val(ns, "X").m
            all == 1..Len(X)
        IN  /\ pred.est = "mod"
            /\ NoRepeat(fit.idx) /\ NoRepeat(pred.idx)
            /\ SeqSet(fit.idx) \cap SeqSet(pred.idx) = {}
            /\ SeqSet(fit.idx) \cup SeqSet(pred.idx) = all
            /\ fit.X = [k \in 1..Len(fit.idx) |-> X[fit.idx[k]]]
            /\ SeqSet(pred.idx) = MissingMotherHs
            /\ SeqSet(fit.idx) = all \ MissingMotherHs
            /\ Len(Val(ns, "mother_hs_pred").m) = Cardinality(MissingMotherHs)
            /\ \A k \in 1..Len(pred.idx) : Val(ns, "mother_hs_pred").m[k].x = X[pred.idx[k]]

\* mother_hs_pred was computed for two missing rows from a fit on two others
C2_Witness ==
    /\ Ran("PredictMissing")
    /\ Len(Val(ns, "mother_hs_pred").m) = 2
    /\ Len(log["mod"][1].idx) = 2

\* C3: when the multiple-imputation cell has run to its end, however often
\* it was run before, mother_hs_imp holds exactly three prediction arrays,
\* those of C = 0.1, 0.4 and 2 in this order, each with one value per row
\* whose mother_hs is missing.
C3_ThreeImputations ==
    Ran("MultipleImputation") =>
        LET imp3 == Val(ns, "mother_hs_imp").m
        IN  /\ Len(imp3) = 3
            /\ \A k \in 1..Len(imp3) :
                /\ Len(imp3[k].m) = Cardinality(MissingMotherHs)
                /\ \A i \in 1..Len(imp3[k].m) :
                    /\ imp3[k].m[i].C10 = LoopCs[k]
                    /\ imp3[k].m[i].penalty = "l1"

\* the loop cell was run twice in a row and left three arrays of two values
C3_Witness ==
    /\ Ran("MultipleImputation") /\ status.again
    /\ Len(Val(ns, "mother_hs_imp").m) = 3
    /\ Len(Val(ns, "mother_hs_imp").m[1].m) = 2

\* the mean of the entries present in col is q
IsMeanOf(q, col) ==
    /\ ~IsNaN(q) /\ q.rad = 1
    /\ Len(Present(col)) > 0
    /\ q.num * Len(Present(col)) = SumNum(Present(col)) * q.den

\* C4: what imp.transform(X) displays has the shape of X; an entry present
\* in X is displayed unchanged, a missing one is displayed as the mean of
\* the entries present in the same column of the data imp was fitted on,
\* and nothing displayed is missing.
C4_MeanImputation ==
    Ran("ImputeX") =>
        LET X == Val(ns, "X").m
            fitted == log["imp"][1]
            R == out[1].m
        IN  /\ Len(R) = Len(X)
            /\ \A i \in 1..Len(X) :
                /\ Len(R[i]) = Len(X[i])
                /\ \A j \in 1..Len(X[i]) :
                    /\ ~IsNaN(R[i][j])
                    /\ ~IsNaN(X[i][j]) => R[i][j] = X[i][j]
                    /\ IsNaN(X[i][j]) => IsMeanOf(R[i][j], Column(fitted, j))

\* imp.transform(X) displayed 4 = (1 + 7) / 2 for the missing entry of the
\* first column and 11/3 = (2 + 3 + 6) / 3 for that of the second
C4_Witness ==
    /\ Ran("ImputeX")
    /\ QEq(out[1].m[1][1], I(4))
    /\ QEq(out[1].m[2][2], [num |-> 11, den |-> 3, rad |-> 1])

\* C5: every value of the predictor matrix X built from impute_subset lies
\* between 0 and 1, and every column of it attains 0 and attains 1.
C5_PredictorsInUnitRange ==
    Ran("PopAndScale") =>
        LET X == Val(ns, "X").m
        IN  /\ \A i \in 1..Len(X) : \A j \in 1..Len(X[i]) : QInUnit(X[i][j])
            /\ \A j \in 1..NCols(X) :
                /\ \E i \in 1..Len(X) : QIsZero(X[i][j])
                /\ \E i \in 1..Len(X) : QIsOne(X[i][j])

IncompleteCols == {"family_inv", "prev_disab", "mother_hs"}
ExcludedCols == {"family_inv", "prev_disab", "score", "mother_hs"}

\* the only columns of f with a missing entry are the three incomplete ones
OnlyIncompleteMissing(f) ==
    \A j \in 1..Len(f.cols) :
        (\E i \in 1..Len(f.m) : IsNaN(f.m[i][j])) => f.cols[j] \in IncompleteCols

\* C6: when X has just been built, and the only columns of test_scores with
\* missing entries are family_inv, prev_disab and mother_hs, then X is the
\* standardised matrix of the columns of test_scores other than family_inv,
\* prev_disab, score and mother_hs, in their order, and no entry of X is
\* missing.
C6_CompletePredictors ==
    (Ran("PopAndScale") /\ OnlyIncompleteMissing(Val(ns, "test_scores"))) =>
        LET f == Val(ns, "test_scores")
            idx == KeepIndices([j \in 1..Len(f.cols) |-> f.cols[j] \notin ExcludedCols],
                               1, Len(f.cols))
            X == Val(ns, "X").m
        IN  /\ Val(ns, "impute_subset").cols = [k \in 1..Len(idx) |-> f.cols[idx[k]]]
            /\ X = Standardized(SelectCols(f.m, idx))
            /\ NCols(X) = Len(f.cols) - Cardinality(ExcludedCols)
            /\ ~HasNaN(X)

\* X was built from a table in which each of the three incomplete columns
\* has a missing entry
C6_Witness ==
    /\ Ran("PopAndScale")
    /\ \A c \in IncompleteCols :
        \E i \in 1..Len(Val(ns, "test_scores").m) :
            IsNaN(Val(ns, "test_scores").m[i][ColIndex(Val(ns, "test_scores"), c)])
    /\ NCols(Val(ns, "X").m) = 7

----------------------------------------------------------------------------
(* Properties of a run and of the loading cells *)

TestScoresFile == Frame("read_csv", TestScoresCols, env.test_scores)

\* A step of the data-preprocessing notebook that runs the loading cell
\* finds test_scores unbound, reads the file once and binds test_scores to
\* the file's table; any other step reads no file and leaves the object
\* bound to test_scores as it is.
C7_Step ==
    (nb = "prep" /\ status' # status) =>
        /\ status'.cell = "LoadTestScores" =>
              /\ ~Bound(ns, "test_scores")
              /\ log'["read_csv"] =
                    Some([name |-> "test_scores", attempts |-> 1, ok |-> (status'.err = "ok")])
              /\ status'.err = "ok" => ns'["test_scores"] = Some(TestScoresFile)
        /\ status'.cell # "LoadTestScores" =>
              /\ log'["read_csv"] = None
              /\ ns'["test_scores"] = ns["test_scores"]

\* C7: in a top-to-bottom run of Day2_2-Data-Preprocessing test_scores is
\* read from the CSV file exactly once, and no later cell (the imputers,
\* fillna, dropna().corr, drop, the pop on impute_subset, the models)
\* changes its columns or its values.
C7_LoadedOnceUnchanged == [][C7_Step]_vars

\* the run reached its last cell: test_scores is still the file's table,
\* while impute_subset has lost the columns dropped and popped
C7_Witness ==
    /\ nb = "prep" /\ Ran("ShowImputations")
    /\ ns["test_scores"] = Some(TestScoresFile)
    /\ ~HasCol(Val(ns, "impute_subset"), "mother_hs")

LoadCells == {"LoadTestScores", "LoadVlbw"}

\* A step of a loading cell whose read fails ends with the error of the file
\* layer after one attempt, displays nothing and leaves every name as it
\* was; no other step ends with that error.
C8_Step ==
    /\ (status'.cell \in LoadCells /\ log'["read_csv"] # None /\ ~log'["read_csv"][1].ok) =>
          /\ status'.err = "FileNotFoundError"
          /\ log'["read_csv"][1].attempts = 1
          /\ ns' = ns
          /\ out' = None
    /\ status'.err = "FileNotFoundError" =>
          /\ status'.cell \in LoadCells
          /\ ns' = ns

\* C8: when pd.read_csv fails in a loading cell (test_scores, vlbw) the
\* error leaves the cell unhandled, the read is not tried again, the name
\* being assigned keeps its previous state (unbound on a first run) and the
\* names bound by earlier cells are unchanged.
C8_ReadErrorPropagates == [][C8_Step]_vars

\* the vlbw cell failed on a second run: vlbw and the names derived from it
\* keep what the first run bound
C8_Witness ==
    /\ nb = "intro" /\ status.cell = "LoadVlbw" /\ status.err = "FileNotFoundError"
    /\ Bound(ns, "vlbw") /\ Bound(ns, "X0") /\ Bound(ns, "X_train") /\ Bound(ns, "iris")

\* C9: in the top-to-bottom order of both notebooks every read of a fitted
\* attribute (mean_, scale_, classes_, explained_variance_ratio_, coef_) and
\* every transform or predict is of an object that a fit or fit_transform
\* has fitted before, so that no cell ends with the error of an unfitted
\* object.
C9_UseAfterFit ==
    /\ log["use"] # None =>
          /\ log["use"][1].fitted
          /\ log[log["use"][1].obj] # None
    /\ status.err \notin {"NotFittedError", "AttributeError"}

\* the run of the introduction reached its last cell, which read lrmod.coef_
\* after the loop had fitted lrmod_i
C9_Witness ==
    /\ nb = "intro" /\ Ran("PlotCoefs")
    /\ log["use"] = Some([obj |-> "lrmod", fitted |-> TRUE])
    /\ Val(ns, "lrmod_i").fitted /\ Val(ns, "pca").fitted

\* the row of the frame or series f with the label l
RowAt(f, l) == f.m[CHOOSE i \in 1..Len(f.index) : f.index[i] = l]

\* C10: after train_test_split(X0, y) the training rows and the test rows
\* have no row in common and together are every row of X0 once, the test
\* rows are a quarter of the rows rounded up, and X_train/y_train and
\* X_test/y_test hold the same rows of X0 and of y in the same order.
C10_SplitQuarter ==
    Ran("Split") =>
        LET X0 == Val(ns, "X0")
            yv == Val(ns, "y")
            Xtr == Val(ns, "X_train")
            Xte == Val(ns, "X_test")
            ytr == Val(ns, "y_train")
            yte == Val(ns, "y_test")
            n == NRows(X0.m)
        IN  /\ NoRepeat(Xtr.index) /\ NoRepeat(Xte.index)
            /\ SeqSet(Xtr.index) \cap SeqSet(Xte.index) = {}
            /\ SeqSet(Xtr.index) \cup SeqSet(Xte.index) = SeqSet(X0.index)
            /\ 4 * Len(Xte.m) >= n /\ 4 * (Len(Xte.m) - 1) < n
            /\ ytr.index = Xtr.index /\ yte.index = Xte.index
            /\ \A k \in 1..Len(Xtr.m) :
                  Xtr.m[k] = RowAt(X0, Xtr.index[k]) /\ ytr.m[k] = RowAt(yv, Xtr.index[k])
            /\ \A k \in 1..Len(Xte.m) :
                  Xte.m[k] = RowAt(X0, Xte.index[k]) /\ yte.m[k] = RowAt(yv, Xte.index[k])

\* three rows were split: one for testing, two for training, out of order
C10_Witness ==
    /\ Ran("Split")
    /\ Val(ns, "X_test").index = <<2>>
    /\ Val(ns, "X_train").index = <<3, 1>>

----------------------------------------------------------------------------
(* Properties of the encoder cells *)

\* the number of distinct values of each feature of the data enc was fitted on
Distinct(M) == [j \in 1..NCols(M) |-> Cardinality({M[i][j] : i \in 1..NRows(M)})]

\* the entries of the displayed row that belong to feature j
BlockStart(sizes, j) ==
    1 + (IF j = 1 THEN 0 ELSE IF j = 2 THEN sizes[1] ELSE sizes[1] + sizes[2])
BlockOf(sizes, j) == BlockStart(sizes, j)..(BlockStart(sizes, j) + sizes[j] - 1)

\* C11: after enc.fit on the data whose three features take 2, 3 and 4
\* distinct values, enc.transform of a row of seen values displays
\* 2 + 3 + 4 = 9 entries, each 0 or 1; within the block of each feature
\* exactly one entry is 1, the one at the position of the feature's value.
C11_OneHotBlocks ==
    (Ran("EncoderTransform") /\ log["arg"] # None) =>
        LET row == log["arg"][1]
            sizes == Distinct(log["enc"][1])
            shown == out[1].m[1]
        IN  /\ sizes = <<2, 3, 4>>
            /\ Len(out[1].m) = 1
            /\ Len(shown) = 9
            /\ \A k \in 1..9 : shown[k] \in {I(0), I(1)}
            /\ \A j \in 1..3 :
                  /\ Cardinality({k \in BlockOf(sizes, j) : shown[k] = I(1)}) = 1
                  /\ \A k \in BlockOf(sizes, j) :
                        shown[k] = I(1) <=> k = BlockStart(sizes, j) + row[j]

\* the row [1, 2, 3], the largest value of every feature, was encoded
C11_Witness ==
    /\ Ran("EncoderTransform")
    /\ log["arg"] = Some(<<1, 2, 3>>)
    /\ out = Some(Array(Mat(<< <<0, 1, 0, 0, 1, 0, 0, 0, 1>> >>)))

\* the numbers of a displayed one-dimensional array
Nums(a) == [i \in 1..Len(a.m) |-> a.m[i].num]

\* C12: after le.fit(labels), le.classes_ holds the distinct labels in
\* ascending order; le.transform maps each label to its position in
\* le.classes_ counted from 0, so that over the fitted labels the codes
\* are exactly 0 .. n_classes-1.
C12_ConsecutiveCodes ==
    (Bound(ns, "le") /\ Val(ns, "le").fitted) =>
        LET classes == Val(ns, "le").params
            n == Len(classes)
            labels == log["le"][1]
        IN  /\ SeqSet(classes) = SeqSet(labels)
            /\ \A k \in 1..(n - 1) : classes[k] < classes[k + 1]
            /\ Ran("LeClasses") => Nums(out[1]) = classes
            /\ (Ran("LeTransform") /\ log["arg"] # None) =>
                  LET v == log["arg"][1]
                      codes == Nums(out[1])
                  IN  /\ Len(codes) = Len(v)
                      /\ \A i \in 1..Len(v) :
                            codes[i] \in 0..(n - 1) /\ classes[codes[i] + 1] = v[i]
                      /\ SeqSet(v) = SeqSet(labels) => SeqSet(codes) = 0..(n - 1)

\* fitted on 1, 2, 2, 6 the encoder coded the labels 6, 1 as 2, 0
C12_Witness ==
    /\ Ran("LeTransform")
    /\ log["le"] = Some(LeFitLiteral)
    /\ log["arg"] = Some(<<6, 1>>)
    /\ out = Some(Array(Vector(<<2, 0>>)))

\* C13: the encoding of the LabelEncoder round-trips.  Of labels that fit
\* has seen, le.inverse_transform of what le.transform displayed gives the
\* labels back; of codes in 0 .. n_classes-1, le.transform of what
\* le.inverse_transform displayed gives the codes back.
C13_RoundTrip ==
    /\ (Ran("LeTransform") /\ log["arg"] # None) =>
          LET back == LeInverseOf(Fresh, Nums(out[1]))
          IN  back.err = "ok" /\ Nums(back.out[1]) = log["arg"][1]
    /\ (Ran("LeInverse") /\ log["arg"] # None) =>
          LET back == LeTransformOf(Fresh, Nums(out[1]))
          IN  back.err = "ok" /\ Nums(back.out[1]) = log["arg"][1]

\* fitted on 1, 2, 2, 6 the encoder decoded the codes 2, 0 as 6, 1
C13_Witness ==
    /\ Ran("LeInverse")
    /\ log["le"] = Some(LeFitLiteral)
    /\ log["arg"] = Some(<<2, 0>>)
    /\ out = Some(Array(Vector(<<6, 1>>)))

----------------------------------------------------------------------------
(* Properties of the scaled values *)

AllInUnit(M) == \A i \in 1..Len(M) : \A j \in 1..Len(M[i]) : QInUnit(M[i][j])

\* C14 as stated: every value that min_max_scaler returns, from
\* fit_transform(X) and from transform(X_test) of the new test row, lies
\* between 0 and 1.
C14_AllInUnitRange ==
    (Ran("FitMinMax") \/ Ran("MinMaxTransformTest")) => AllInUnit(out[1].m)

\* the least and the greatest entry of feature j of the data M
Least(M, j) == CHOOSE v \in {M[i][j].num : i \in 1..Len(M)} : \A i \in 1..Len(M) : v <= M[i][j].num
Greatest(M, j) == CHOOSE v \in {M[i][j].num : i \in 1..Len(M)} : \A i \in 1..Len(M) : v >= M[i][j].num

\* C14 amended: every value that min_max_scaler.fit_transform(X) returns
\* lies between 0 and 1.  transform(X_test) shifts and scales the test row
\* as X was: an entry between the least and the greatest value of its
\* feature in X gives a value between 0 and 1, an entry below the least a
\* value below 0, an entry above the greatest a value above 1; the row
\* [-3, -1, 4] gives [-3/2, 0, 5/3].
C14_FittedDataInUnitRange ==
    /\ Ran("FitMinMax") => AllInUnit(out[1].m)
    /\ Ran("MinMaxTransformTest") =>
          LET fit == log["min_max_scaler"][1]
              row == Val(ns, "X_test").m[1]
              shown == out[1].m[1]
          IN  /\ Len(shown) = Len(row)
              /\ \A j \in 1..Len(row) :
                    LET x == row[j].num
                        lo == Least(fit, j)
                        hi == Greatest(fit, j)
                    IN  /\ (lo <= x /\ x <= hi) => QInUnit(shown[j])
                        /\ x < lo => QNeg(shown[j])
                        /\ (x > hi /\ hi > lo) => ~QLeOne(shown[j])
              /\ row = <<I(-3), I(-1), I(4)>> =>
                    /\ QEq(shown[1], [num |-> -3, den |-> 2, rad |-> 1])
                    /\ QEq(shown[2], I(0))
                    /\ QEq(shown[3], [num |-> 5, den |-> 3, rad |-> 1])

\* the test row was transformed by the scaler fitted on X
C14_Witness ==
    /\ Ran("MinMaxTransformTest")
    /\ log["min_max_scaler"] = Some(XLiteral)
    /\ QNeg(out[1].m[1][1])
    /\ ~QLeOne(out[1].m[1][3])

Constant(M, j) == \A i \in 1..NRows(M) : M[i][j] = M[1][j]

\* C15: for X_scaled = preprocessing.scale(X) every column of X_scaled
\* whose column of X is not constant has mean 0 and standard deviation 1,
\* which is what X_scaled.mean(0) and X_scaled.std(0) display, and
\* scaler.transform(X) of the StandardScaler fitted on that X displays the
\* values of X_scaled.
C15_ZeroMeanUnitVariance ==
    Bound(ns, "X_scaled") =>
        LET X == Val(ns, "X").m
            XS == Val(ns, "X_scaled").m
        IN  /\ NRows(XS) = NRows(X) /\ NCols(XS) = NCols(X)
            /\ Ran("ScaledMean") =>
                  \A j \in 1..NCols(X) : ~Constant(X, j) => QIsZero(out[1].m[j])
            /\ Ran("ScaledStd") =>
                  \A j \in 1..NCols(X) : ~Constant(X, j) => QIsOne(out[1].m[j])
            /\ (Ran("ScalerTransformX") /\ log["scaler"] = Some(X)) =>
                  \A i \in 1..NRows(X) : \A j \in 1..NCols(X) : QEq(out[1].m[i][j], XS[i][j])

\* the deviations of the scaled literal X were displayed, each of them 1
C15_Witness ==
    /\ Ran("ScaledStd")
    /\ Val(ns, "X").m = XLiteral
    /\ Bound(ns, "scaler") /\ Val(ns, "scaler").fitted
    /\ Len(out[1].m) = 3
    /\ \A j \in 1..3 : QIsOne(out[1].m[j])

----------------------------------------------------------------------------
(* Properties of the notebooks' own control flow *)

PlotScaledCells == {"PlotStandard", "PlotMinMax", "PlotNormalizer", "PlotRobust"}

----------------------------------------------------------------------------
(* Properties of the plotted data *)

\* the cells that plot X_raw with y, and those that plot X_outlier with y_outlier
PlotsWithY == {"PlotRaw", "PlotStandard", "PlotMinMax", "PlotNormalizer"}
PlotsWithOutliers == {"PlotOutliers", "PlotRobust"}

\* impute_subset.pop('mother_hs') has taken place, which is when y is bound
\* to the values of that column
Popped == Bound(ns, "impute_subset") /\ ~HasCol(Val(ns, "impute_subset"), "mother_hs")

OneLabelPerRow(xs, ys, n) ==
    /\ Bound(ns, xs) /\ Bound(ns, ys)
    /\ NRows(Val(ns, xs).m) = n
    /\ Len(Val(ns, ys).m) = n

====
